---- MODULE Spec2Model ----
(***************************************************************************)
(* Verification model of the graphicsEngine repository: the shared        *)
(* NodeGraph, the OSC transport and the three services built on it, and   *)
(* the legacy PipelineGraph.  Each subsystem has its own variables and    *)
(* its own specification; a specification leaves the variables of the     *)
(* other subsystems at their idle values.                                 *)
(***************************************************************************)
EXTENDS Integers, Sequences, FiniteSets, TLC

VARIABLES
    graph,      \* NodeGraph: nodes_, connections_, next_node_id_, next_connection_id_
    ngOp,       \* NodeGraph: the last member function called and its argument
    ngPre,      \* NodeGraph: the graph as it was before that call
    engineInbox,    \* OSC messages in flight to the engine's port
    editorInbox,    \* OSC messages in flight to the node editor's port
    engineGraph,    \* GraphicsEngine::node_graph_
    engConnCounter, \* static next_connection_id of GraphicsEngine::connectNodes
    edNextNodeId,   \* NodeEditor::next_node_id_
    edConnected,    \* NodeEditor::engine_connected_
    edLocalGraph,   \* NodeEditor::local_graph_
    ciNextId,       \* static next_id of CodeInterpreter::createNodeFunction
    ciConnected,    \* CodeInterpreter::engine_connected_
    bigEndian,      \* byte order of the host the services were built for
    svPc,           \* NodeEditor / CodeInterpreter: where the main thread is
    svRet,          \* who called shutdown(): where the main thread goes back to
    svRunning,      \* running_ of each service
    svEngineConnected,  \* engine_connected_ of each service
    svEditorConnected,  \* CodeInterpreter::node_editor_connected_
    svShouldClose,  \* glfwWindowShouldClose(window_) of the editor
    svServerUp,     \* each service's OSC server is between start() and stop()
    svLog,          \* what each service's shutdown() has done so far, in order
    erPc,           \* GraphicsEngine::run: where the main thread is
    erRunning,      \* GraphicsEngine::running_
    erContext,      \* GraphicsEngine::render_context_ is set
    erShouldClose,  \* RenderContext::shouldClose()
    erServerUp,     \* the engine's OSC server is started and its handlers registered
    erQuitInFlight, \* /engine/quit messages sent and not yet received
    erFrames,       \* frames rendered by the loop
    erStopRequested,    \* a quit message has been handled or the window asked to close
    osRunning,      \* OSCServer::running_
    osServer,       \* OSCServer::server_ is set (the socket is open)
    osThread,       \* OSCServer::server_thread_: where the receive loop is
    osCaller,       \* the owning thread: where it is in stop()
    osStarts,       \* calls of start() so far
    osInFlight,     \* messages sent to the port and not yet received
    osHandled,      \* messages a handler has finished with
    pg,             \* PipelineGraph: nodes_, connections_, nextNodeId_, outputNodeId_
    pgResult,       \* what the last call of the PipelineGraph returned or threw
    gl,             \* the OpenGL context: program objects, those flagged for deletion, the one in use
    sm,             \* legacy ShaderManager: ShaderManager::Impl and whether it is initialized
    fsFiles,        \* the snippet files on disk: modification time, and changes not yet checked for
    smLast,         \* legacy ShaderManager: the last call or file change and what it returned
    es,             \* gfx::ShaderManager: initialized_, current_program_, active_programs_
    pl,             \* gfx::Pipeline: initialized_, shader_program_
    esLast,         \* gfx::ShaderManager / gfx::Pipeline: the last call and what it returned
    piFiles,        \* the files an #include can name, with their contents
    piStack,        \* processIncludes: the result string of each active call, outermost first
    piResult,       \* processIncludes: what the outermost call returned
    ciRunning,      \* CodeInterpreter::running_
    ciLast,         \* CodeInterpreter::executeCode: the last call, what it returned, and the ids createNode used so far
    lp,             \* legacy Pipeline::Impl: nodes, outputNodeId, errors, cachedExecutionOrder, executionOrderDirty
    lpDesc,         \* the description handed to Pipeline::fromDescription, as its lines
    lpLast,         \* legacy Pipeline: the last call and what it returned
    mf,             \* ModuleFactory::creators_ during and after static initialization
    mfTU,           \* how many REGISTER_MODULE initializers of each translation unit have run
    mfLast,         \* ModuleFactory::createModule: the last call and what it returned
    sr,             \* run() of the three services: where each is, its running_ flag, the initialization step that failed, the status messages it sent
    pr,             \* a Parameter holding a value, the string toString() gave, and the Parameter fromString() filled
    idc,            \* the node id counters of the Node Editor and the Code Interpreter and the ids each has put into a create request
    et              \* the threads of the Graphics Engine process: where the main thread, the OSC receive thread and the signal handler stand, and what they share

ngVars == <<graph, ngOp, ngPre>>

oscVars == <<engineInbox, editorInbox, engineGraph, engConnCounter, edNextNodeId,
             edConnected, edLocalGraph, ciNextId, ciConnected, bigEndian>>

svVars == <<svPc, svRet, svRunning, svEngineConnected, svEditorConnected,
            svShouldClose, svServerUp, svLog>>

erVars == <<erPc, erRunning, erContext, erShouldClose, erServerUp, erQuitInFlight,
            erFrames, erStopRequested>>

osVars == <<osRunning, osServer, osThread, osCaller, osStarts, osInFlight, osHandled>>

pgVars == <<pg, pgResult>>

smVars == <<gl, sm, fsFiles, smLast>>

esVars == <<es, pl, esLast>>

piVars == <<piFiles, piStack, piResult>>

ciVars == <<ciRunning, ciLast>>

lpVars == <<lp, lpDesc, lpLast>>

mfVars == <<mf, mfTU, mfLast>>

srVars == <<sr>>

prVars == <<pr>>

idVars == <<idc>>

etVars == <<et>>

vars == <<ngVars, oscVars, svVars, erVars, osVars, pgVars, smVars, esVars, piVars, ciVars, lpVars, mfVars, srVars, prVars, idVars, etVars>>

NotNG == <<oscVars, svVars, erVars, osVars, pgVars, smVars, esVars, piVars, ciVars, lpVars, mfVars, srVars, prVars, idVars, etVars>>

NotOsc == <<ngVars, svVars, erVars, osVars, pgVars, smVars, esVars, piVars, ciVars, lpVars, mfVars, srVars, prVars, idVars, etVars>>

NotSv == <<ngVars, oscVars, erVars, osVars, pgVars, smVars, esVars, piVars, ciVars, lpVars, mfVars, srVars, prVars, idVars, etVars>>

NotEr == <<ngVars, oscVars, svVars, osVars, pgVars, smVars, esVars, piVars, ciVars, lpVars, mfVars, srVars, prVars, idVars, etVars>>

NotOs == <<ngVars, oscVars, svVars, erVars, pgVars, smVars, esVars, piVars, ciVars, lpVars, mfVars, srVars, prVars, idVars, etVars>>

NotPg == <<ngVars, oscVars, svVars, erVars, osVars, smVars, esVars, piVars, ciVars, lpVars, mfVars, srVars, prVars, idVars, etVars>>

(***************************************************************************)
(* Small helpers on functions used as std::map.                           *)
(***************************************************************************)
MapErase(m, k) == [x \in (DOMAIN m) \ {k} |-> m[x]]

MapPut(m, k, v) == [x \in (DOMAIN m) \cup {k} |-> IF x = k THEN v ELSE m[x]]

Max(a, b) == IF a >= b THEN a ELSE b

EmptyMap == [x \in {} |-> 0]

(***************************************************************************)
(* Bounds of the NodeGraph model.                                         *)
(***************************************************************************)
MaxNodeId == 3

MaxConnId == 2

NodeIdSet == 1..MaxNodeId

ConnIdSet == 1..MaxConnId

(***************************************************************************)
(* NodeGraph (src/src/core/NodeGraph.cpp).  A node is [id, name, type],   *)
(* a connection is [id, source, source_output, target, target_input].     *)
(***************************************************************************)
NodeGraph_new ==
    [nodes |-> EmptyMap, connections |-> EmptyMap,
     next_node_id |-> 1, next_connection_id |-> 1]

NodeGraph_addNode_NoAdvance(g, node) ==
    [g EXCEPT !.nodes = MapPut(g.nodes, node.id, node)]

NodeGraph_addNode(g, node) ==
    [g EXCEPT !.nodes = MapPut(g.nodes, node.id, node),
              !.next_node_id = Max(g.next_node_id, node.id + 1)]

NodeGraph_removeNode_SourceOnly(g, node_id) ==
    [g EXCEPT !.connections =
                  [c \in {x \in DOMAIN g.connections :
                              g.connections[x].source # node_id}
                      |-> g.connections[c]],
              !.nodes = MapErase(g.nodes, node_id)]

NodeGraph_removeNode(g, node_id) ==
    [g EXCEPT !.connections =
                  [c \in {x \in DOMAIN g.connections :
                              ~(g.connections[x].source = node_id
                                \/ g.connections[x].target = node_id)}
                      |-> g.connections[c]],
              !.nodes = MapErase(g.nodes, node_id)]

NodeGraph_addConnection(g, conn) ==
    [g EXCEPT !.connections = MapPut(g.connections, conn.id, conn),
              !.next_connection_id = Max(g.next_connection_id, conn.id + 1)]

NodeGraph_removeConnection(g, connection_id) ==
    [g EXCEPT !.connections = MapErase(g.connections, connection_id)]

NodeGraph_clear(g) ==
    [nodes |-> EmptyMap, connections |-> EmptyMap,
     next_node_id |-> 1, next_connection_id |-> 1]

MkNode(id, name, type) == [id |-> id, name |-> name, type |-> type]

MkConnection(id, s, so, t, ti) ==
    [id |-> id, source |-> s, source_output |-> so,
     target |-> t, target_input |-> ti]

(***************************************************************************)
(* Text.  A std::string is a sequence of one-character strings; CharCode  *)
(* gives the byte of each character the model uses.                       *)
(***************************************************************************)
CharCode ==
    [c \in {"0", "1", "2", "3", "4", "5", "6", "7", "8", "9", ",", "-",
            "N", "o", "u", "t", "p", "m", "a", "h", "i", "n", "g"} |->
        CASE c = "0" -> 48 [] c = "1" -> 49 [] c = "2" -> 50 [] c = "3" -> 51
          [] c = "4" -> 52 [] c = "5" -> 53 [] c = "6" -> 54 [] c = "7" -> 55
          [] c = "8" -> 56 [] c = "9" -> 57 [] c = "," -> 44 [] c = "-" -> 45
          [] c = "N" -> 78 [] c = "o" -> 111 [] c = "u" -> 117 [] c = "t" -> 116
          [] c = "p" -> 112 [] c = "m" -> 109 [] c = "a" -> 97 [] c = "h" -> 104
          [] c = "i" -> 105 [] c = "n" -> 110 [] c = "g" -> 103]

DigitChar(d) == <<"0", "1", "2", "3", "4", "5", "6", "7", "8", "9">>[d + 1]

RECURSIVE NatToString(_)
NatToString(n) ==
    IF n < 10 THEN <<DigitChar(n)>>
    ELSE NatToString(n \div 10) \o <<DigitChar(n % 10)>>

\* std::to_string(int)
to_string(n) == IF n < 0 THEN <<"-">> \o NatToString(0 - n) ELSE NatToString(n)

Comma == <<",">>

(***************************************************************************)
(* OSC messages.  An argument carries its OSC type tag ("i" or "s") and   *)
(* its value; a message is a path and its arguments, with the sender and  *)
(* what the sender meant kept alongside for the properties.               *)
(***************************************************************************)
IntArg(i) == [t |-> "i", v |-> i]

StrArg(str) == [t |-> "s", v |-> str]

Types(msg) == [k \in 1..Len(msg.args) |-> msg.args[k].t]

Argc(msg) == Len(msg.args)

\* the byte at offset k of a string argument: OSC strings are NUL-terminated
\* and padded with NULs to a multiple of four bytes
ByteAt(str, k) == IF k <= Len(str) THEN CharCode[str[k]] ELSE 0

\* lo_arg is a union: ->i of a string argument reads its first four bytes
\* as an int32 in host byte order
BytesAsInt(str, big) ==
    IF big
    THEN ByteAt(str, 1) * 16777216 + ByteAt(str, 2) * 65536
         + ByteAt(str, 3) * 256 + ByteAt(str, 4)
    ELSE ByteAt(str, 1) + ByteAt(str, 2) * 256
         + ByteAt(str, 3) * 65536 + ByteAt(str, 4) * 16777216

\* lo_message_get_argv(msg)[k]->i
ArgI(msg, k, big) ==
    IF msg.args[k].t = "i" THEN msg.args[k].v ELSE BytesAsInt(msg.args[k].v, big)

\* &lo_message_get_argv(msg)[k]->s  (only string arguments are ever read so)
ArgS(msg, k) == msg.args[k].v

CREATE_NODE == "/engine/node/create"

DELETE_NODE == "/engine/node/delete"

SET_PARAMETER == "/engine/node/param/set"

CONNECT_NODES == "/engine/connection/create"

DISCONNECT_NODES == "/engine/connection/delete"

NODE_CREATED == "/engine/node/created"

NODE_DELETED == "/engine/node/deleted"

PARAMETER_UPDATED == "/engine/parameter/updated"

CONNECTION_CREATED == "/engine/connection/created"

CONNECTION_DELETED == "/engine/connection/deleted"

\* OSCClient::sendMessage(path, string)
SendS(path, str, from, intent) ==
    [path |-> path, args |-> <<StrArg(str)>>, from |-> from, intent |-> intent]

\* OSCClient::sendMessage(path, int)
SendI(path, i, from, intent) ==
    [path |-> path, args |-> <<IntArg(i)>>, from |-> from, intent |-> intent]

\* OSCClient::sendMessage(path, int, string, string)
SendISS(path, i, s1, s2, from, intent) ==
    [path |-> path, args |-> <<IntArg(i), StrArg(s1), StrArg(s2)>>,
     from |-> from, intent |-> intent]

\* OSCClient::sendMessage(path, int, string, int, string)
SendISIS(path, i1, s1, i2, s2, from, intent) ==
    [path |-> path, args |-> <<IntArg(i1), StrArg(s1), IntArg(i2), StrArg(s2)>>,
     from |-> from, intent |-> intent]

Str_output == <<"o", "u", "t", "p", "u", "t">>

Str_math == <<"m", "a", "t", "h">>

Str_out == <<"o", "u", "t">>

Str_in == <<"i", "n">>

Str_N == <<"N">>

\* osc::stringToNodeType: the six known names, anything else is CUSTOM
stringToNodeType(str) ==
    IF str = Str_output THEN "OUTPUT" ELSE "CUSTOM"

(***************************************************************************)
(* Idle values of each subsystem's variables.                             *)
(***************************************************************************)
OscStart ==
    /\ engineInbox = <<>>
    /\ editorInbox = <<>>
    /\ engineGraph = NodeGraph_new
    /\ engConnCounter = 1
    /\ edNextNodeId = 1
    /\ edConnected = TRUE
    /\ edLocalGraph = NodeGraph_new
    /\ ciNextId = 1000
    /\ ciConnected = TRUE

OscIdle == OscStart /\ bigEndian = FALSE

(***************************************************************************)
(* The Node Editor and the Code Interpreter as constructed                *)
(* (NodeEditor::NodeEditor, CodeInterpreter::CodeInterpreter).            *)
(***************************************************************************)
Services == {"editor", "interp"}

SvIdle ==
    /\ svPc = [s \in Services |-> "constructed"]
    /\ svRet = [s \in Services |-> "none"]
    /\ svRunning = [s \in Services |-> FALSE]
    /\ svEngineConnected = [s \in Services |-> FALSE]
    /\ svEditorConnected = FALSE
    /\ svShouldClose = FALSE
    /\ svServerUp = [s \in Services |-> FALSE]
    /\ svLog = [s \in Services |-> <<>>]

(***************************************************************************)
(* The engine as constructed (GraphicsEngine::GraphicsEngine).            *)
(***************************************************************************)
ErIdle ==
    /\ erPc = "constructed"
    /\ erRunning = FALSE
    /\ erContext = FALSE
    /\ erShouldClose = FALSE
    /\ erServerUp = FALSE
    /\ erQuitInFlight = 0
    /\ erFrames = 0
    /\ erStopRequested = FALSE

(***************************************************************************)
(* An OSCServer as constructed (OSCServer::OSCServer).                    *)
(***************************************************************************)
OsIdle ==
    /\ osRunning = FALSE
    /\ osServer = FALSE
    /\ osThread = "none"
    /\ osCaller = "idle"
    /\ osStarts = 0
    /\ osInFlight = 0
    /\ osHandled = 0

(***************************************************************************)
(* A PipelineGraph as constructed (PipelineGraph::PipelineGraph).         *)
(***************************************************************************)
PipelineGraph_new ==
    [nodes |-> <<>>, connections |-> <<>>, nextNodeId |-> 1, outputNodeId |-> -1]

PgIdle ==
    /\ pg = PipelineGraph_new
    /\ pgResult = [op |-> "none"]

(***************************************************************************)
(* The OpenGL context before any program object is created, the legacy    *)
(* ShaderManager as constructed (ShaderManager::Impl's initializers), the *)
(* gfx::ShaderManager and gfx::Pipeline as constructed, and no include    *)
(* being processed.                                                       *)
(***************************************************************************)
GL_new == [programs |-> {}, flagged |-> {}, current |-> 0]

ShaderManager_new ==
    [initialized |-> FALSE, currentShader |-> 0, defaultShader |-> 0,
     shaderCache |-> EmptyMap, moduleCache |-> {}, programSources |-> {},
     hotReloadEnabled |-> FALSE, fileTimestamps |-> EmptyMap, reloadCallback |-> FALSE,
     compilationCount |-> 0, cacheHits |-> 0, hotReloads |-> 0, availableModules |-> <<>>]

SmIdle ==
    /\ gl = GL_new
    /\ sm = ShaderManager_new
    /\ fsFiles = EmptyMap
    /\ smLast = [op |-> "none"]

gfx_ShaderManager_new == [initialized |-> FALSE, current_program |-> 0, active_programs |-> <<>>]

gfx_Pipeline_new == [initialized |-> FALSE, shader_program |-> 0, shader_manager |-> FALSE]

EsIdle ==
    /\ es = gfx_ShaderManager_new
    /\ pl = gfx_Pipeline_new
    /\ esLast = [op |-> "none"]

PiIdle == /\ piFiles = EmptyMap /\ piStack = <<>> /\ piResult = [done |-> FALSE, overflow |-> FALSE, text |-> <<>>]

\* no executeCode call yet, and no createNode call either
CiNoCall ==
    [op |-> "none", called |-> FALSE, prevId |-> 0, lastId |-> 0]

CiIdle ==
    /\ ciRunning = FALSE
    /\ ciLast = CiNoCall

\* the legacy Pipeline as constructed
Pipeline_new ==
    [nodes |-> <<>>, outputNodeId |-> <<>>, errors |-> <<>>,
     cachedExecutionOrder |-> <<>>, executionOrderDirty |-> TRUE]

LpIdle ==
    /\ lp = Pipeline_new
    /\ lpDesc = <<>>
    /\ lpLast = [op |-> "none"]

\* ModuleFactory::creators_ before any dynamic initialization: zero-initialized
\* storage, not yet a constructed map
ModuleFactory_zeroed ==
    [constructed |-> FALSE, creators_ |-> EmptyMap, crashed |-> FALSE, started |-> FALSE]

MfIdle ==
    /\ mf = ModuleFactory_zeroed
    /\ mfTU = [generators |-> 0, operators |-> 0]
    /\ mfLast = [op |-> "none"]

RunServices == {"engine", "editor", "interp"}

\* a service as constructed: running_(false), nothing sent
Service_new ==
    [pc |-> "constructed", running_ |-> FALSE, failed |-> "none", server |-> FALSE,
     entered |-> FALSE, sent |-> <<>>]

SrIdle ==
    /\ sr = [s \in RunServices |-> Service_new]

\* Parameter::Parameter(name, type): the data zeroed, the string empty.  Float
\* values are whole numbers of magnitude at most 2^24, which a float holds
\* exactly
Parameter_new(type) ==
    [type |-> type, int_value |-> 0, float_value |-> 0, bool_value |-> FALSE,
     vec_values |-> <<0, 0, 0, 0>>, string_value_ |-> <<>>]

PrIdle ==
    /\ pr = [pc |-> "idle", param |-> Parameter_new("INT"), str |-> <<>>,
             read |-> Parameter_new("INT")]

\* NodeEditor::next_node_id_(1) and createNodeFunction's static next_id = 1000,
\* no request sent yet
NodeIds_new ==
    [next_node_id_ |-> 1, next_id |-> 1000, editor |-> {}, interp |-> {}]

IdIdle ==
    /\ idc = NodeIds_new

\* the engine process when main() calls run(): no thread but the main one,
\* nothing initialized, no handler registered
GraphicsEngineThreads_new ==
    [main |-> "run", osc |-> "none", sig |-> "none", sigOn |-> "none",
     running |-> FALSE, serverRunning |-> FALSE,
     render_context |-> FALSE, pipeline |-> FALSE,
     handlers |-> {}, registered |-> 0,
     inFlight |-> <<>>, sent |-> 0, msg |-> "",
     usedReleased |-> FALSE]

EtIdle ==
    /\ et = GraphicsEngineThreads_new

(***************************************************************************)
(* Specification of a NodeGraph driven by arbitrary calls.                *)
(***************************************************************************)
NGIdle ==
    /\ graph = NodeGraph_new
    /\ ngOp = [op |-> "none", arg |-> 0]
    /\ ngPre = NodeGraph_new

NGAddNode ==
    \E id \in NodeIdSet :
        /\ graph' = NodeGraph_addNode(graph, MkNode(id, "n", "custom"))
        /\ ngOp' = [op |-> "addNode", arg |-> id]
        /\ ngPre' = graph
        /\ UNCHANGED NotNG

NGRemoveNode ==
    \E id \in NodeIdSet :
        /\ graph' = NodeGraph_removeNode(graph, id)
        /\ ngOp' = [op |-> "removeNode", arg |-> id]
        /\ ngPre' = graph
        /\ UNCHANGED NotNG

NGAddConnection ==
    \E id \in ConnIdSet, s \in NodeIdSet, t \in NodeIdSet :
        /\ graph' = NodeGraph_addConnection(graph, MkConnection(id, s, "out", t, "in"))
        /\ ngOp' = [op |-> "addConnection", arg |-> id]
        /\ ngPre' = graph
        /\ UNCHANGED NotNG

NGRemoveConnection ==
    \E id \in ConnIdSet :
        /\ graph' = NodeGraph_removeConnection(graph, id)
        /\ ngOp' = [op |-> "removeConnection", arg |-> id]
        /\ ngPre' = graph
        /\ UNCHANGED NotNG

NGClear ==
    /\ graph' = NodeGraph_clear(graph)
    /\ ngOp' = [op |-> "clear", arg |-> 0]
    /\ ngPre' = graph
    /\ UNCHANGED NotNG

InitNodeGraph == NGIdle /\ OscIdle /\ SvIdle /\ ErIdle /\ OsIdle /\ PgIdle /\ SmIdle /\ EsIdle /\ PiIdle /\ CiIdle /\ LpIdle /\ MfIdle /\ SrIdle /\ PrIdle /\ IdIdle /\ EtIdle

NextNodeGraph ==
    \/ NGAddNode
    \/ NGRemoveNode
    \/ NGAddConnection
    \/ NGRemoveConnection
    \/ NGClear

SpecNodeGraph == InitNodeGraph /\ [][NextNodeGraph]_vars

C7_CountersNeverDecrease ==
    [][/\ graph'.next_node_id >= graph.next_node_id
       /\ graph'.next_connection_id >= graph.next_connection_id]_vars

(***************************************************************************)
(* C7 (amended): a counter decreases only in clear(), which resets it to  *)
(* 1 while emptying the graph; at all times each counter is greater than  *)
(* the id of every node (connection) currently stored.                    *)
(***************************************************************************)
C7_CountersAboveStoredIds ==
    /\ \A n \in DOMAIN graph.nodes : graph.next_node_id > n
    /\ \A c \in DOMAIN graph.connections : graph.next_connection_id > c
    /\ graph.next_node_id >= 1
    /\ graph.next_connection_id >= 1
    /\ (ngOp.op # "clear" =>
            /\ graph.next_node_id >= ngPre.next_node_id
            /\ graph.next_connection_id >= ngPre.next_connection_id)
    /\ (ngOp.op = "clear" =>
            /\ graph.next_node_id = 1
            /\ graph.next_connection_id = 1
            /\ DOMAIN graph.nodes = {}
            /\ DOMAIN graph.connections = {})

\* clear() ran on a graph whose counters had advanced, and they were reset
C7_Witness ==
    /\ ngOp.op = "clear"
    /\ ngPre.next_node_id > 1
    /\ ngPre.next_connection_id > 1
    /\ graph.next_node_id = 1

(***************************************************************************)
(* The three services exchanging graph requests and notifications over    *)
(* OSC.  The state at Init is the one after each service's initialize().  *)
(***************************************************************************)
MaxInFlight == 1

MaxEdNodeId == 2

MaxCiCreates == 2

MaxEngConnId == 2

FirstInterpreterId == 1000

ReqIds == {1, 2}

Push(q, m) == Append(q, m)

CanSend(q) == Len(q) < MaxInFlight

Join3(a, b, c) == a \o Comma \o b \o Comma \o c

Join4(a, b, c, d) == a \o Comma \o b \o Comma \o c \o Comma \o d

\* NodeEditor::createNodeInEngine
EditorCreateNode ==
    \E type \in {Str_output, Str_math} :
        /\ edConnected
        /\ edNextNodeId <= MaxEdNodeId
        /\ CanSend(engineInbox)
        /\ edNextNodeId' = edNextNodeId + 1
        /\ engineInbox' = Push(engineInbox,
               SendS(CREATE_NODE, Join3(to_string(edNextNodeId), Str_N, type),
                     "editor", <<edNextNodeId, Str_N, type>>))
        /\ UNCHANGED <<editorInbox, engineGraph, engConnCounter, edConnected,
                       edLocalGraph, ciNextId, ciConnected, bigEndian>>
        /\ UNCHANGED NotOsc

\* NodeEditor::deleteNodeInEngine
EditorDeleteNode ==
    \E node_id \in ReqIds :
        /\ edConnected
        /\ CanSend(engineInbox)
        /\ engineInbox' = Push(engineInbox,
               SendS(DELETE_NODE, to_string(node_id), "editor", <<node_id>>))
        /\ UNCHANGED <<editorInbox, engineGraph, engConnCounter, edNextNodeId,
                       edConnected, edLocalGraph, ciNextId, ciConnected, bigEndian>>
        /\ UNCHANGED NotOsc

\* NodeEditor::connectNodesInEngine
EditorConnectNodes ==
    \E source_id \in ReqIds, target_id \in ReqIds :
        /\ edConnected
        /\ CanSend(engineInbox)
        /\ engineInbox' = Push(engineInbox,
               SendS(CONNECT_NODES,
                     Join4(to_string(source_id), Str_out, to_string(target_id), Str_in),
                     "editor", <<source_id, Str_out, target_id, Str_in>>))
        /\ UNCHANGED <<editorInbox, engineGraph, engConnCounter, edNextNodeId,
                       edConnected, edLocalGraph, ciNextId, ciConnected, bigEndian>>
        /\ UNCHANGED NotOsc

\* NodeEditor::disconnectNodesInEngine
EditorDisconnectNodes ==
    \E connection_id \in ReqIds :
        /\ edConnected
        /\ CanSend(engineInbox)
        /\ engineInbox' = Push(engineInbox,
               SendS(DISCONNECT_NODES, to_string(connection_id), "editor",
                     <<connection_id>>))
        /\ UNCHANGED <<editorInbox, engineGraph, engConnCounter, edNextNodeId,
                       edConnected, edLocalGraph, ciNextId, ciConnected, bigEndian>>
        /\ UNCHANGED NotOsc

\* NodeEditor::updateParameterInEngine
EditorUpdateParameter ==
    \E node_id \in ReqIds :
        /\ edConnected
        /\ CanSend(engineInbox)
        /\ engineInbox' = Push(engineInbox,
               SendS(SET_PARAMETER, Join3(to_string(node_id), Str_N, Str_N),
                     "editor", <<node_id, Str_N, Str_N>>))
        /\ UNCHANGED <<editorInbox, engineGraph, engConnCounter, edNextNodeId,
                       edConnected, edLocalGraph, ciNextId, ciConnected, bigEndian>>
        /\ UNCHANGED NotOsc

\* CodeInterpreter::createNodeFunction, called with two or more arguments
InterpCreateNode ==
    \E type \in {Str_output, Str_math} :
        /\ ciConnected
        /\ ciNextId < FirstInterpreterId + MaxCiCreates
        /\ CanSend(engineInbox)
        /\ ciNextId' = ciNextId + 1
        /\ engineInbox' = Push(engineInbox,
               SendS(CREATE_NODE, Join3(to_string(ciNextId), Str_N, type),
                     "interp", <<ciNextId, Str_N, type>>))
        /\ UNCHANGED <<editorInbox, engineGraph, engConnCounter, edNextNodeId,
                       edConnected, edLocalGraph, ciConnected, bigEndian>>
        /\ UNCHANGED NotOsc

\* CodeInterpreter::deleteNodeFunction
InterpDeleteNode ==
    \E node_id \in ReqIds :
        /\ ciConnected
        /\ CanSend(engineInbox)
        /\ engineInbox' = Push(engineInbox,
               SendS(DELETE_NODE, to_string(node_id), "interp", <<node_id>>))
        /\ UNCHANGED <<editorInbox, engineGraph, engConnCounter, edNextNodeId,
                       edConnected, edLocalGraph, ciNextId, ciConnected, bigEndian>>
        /\ UNCHANGED NotOsc

\* CodeInterpreter::connectNodesFunction
InterpConnectNodes ==
    \E source_id \in ReqIds, target_id \in ReqIds :
        /\ ciConnected
        /\ CanSend(engineInbox)
        /\ engineInbox' = Push(engineInbox,
               SendS(CONNECT_NODES,
                     Join4(to_string(source_id), Str_out, to_string(target_id), Str_in),
                     "interp", <<source_id, Str_out, target_id, Str_in>>))
        /\ UNCHANGED <<editorInbox, engineGraph, engConnCounter, edNextNodeId,
                       edConnected, edLocalGraph, ciNextId, ciConnected, bigEndian>>
        /\ UNCHANGED NotOsc

\* CodeInterpreter::setParameterFunction
InterpSetParameter ==
    \E node_id \in ReqIds :
        /\ ciConnected
        /\ CanSend(engineInbox)
        /\ engineInbox' = Push(engineInbox,
               SendS(SET_PARAMETER, Join3(to_string(node_id), Str_N, Str_N),
                     "interp", <<node_id, Str_N, Str_N>>))
        /\ UNCHANGED <<editorInbox, engineGraph, engConnCounter, edNextNodeId,
                       edConnected, edLocalGraph, ciNextId, ciConnected, bigEndian>>
        /\ UNCHANGED NotOsc

\* Any other OSC client using the typed sendMessage overloads of OSCClient
TypedRequests ==
    {SendISS(CREATE_NODE, id, Str_N, Str_output, "client", <<id, Str_N, Str_output>>) :
         id \in ReqIds}
    \cup {SendI(DELETE_NODE, id, "client", <<id>>) : id \in ReqIds}
    \cup {SendISS(SET_PARAMETER, 1, Str_N, Str_N, "client", <<1, Str_N, Str_N>>)}
    \cup {SendISIS(CONNECT_NODES, 1, Str_out, 2, Str_in, "client",
                   <<1, Str_out, 2, Str_in>>)}
    \cup {SendI(DISCONNECT_NODES, 1, "client", <<1>>)}

ClientSend ==
    \E m \in TypedRequests :
        /\ CanSend(engineInbox)
        /\ engineInbox' = Push(engineInbox, m)
        /\ UNCHANGED <<editorInbox, engineGraph, engConnCounter, edNextNodeId,
                       edConnected, edLocalGraph, ciNextId, ciConnected, bigEndian>>
        /\ UNCHANGED NotOsc

(***************************************************************************)
(* GraphicsEngine's handlers, run by OSCServer::genericHandler on the     *)
(* message at the head of the engine's port.                              *)
(***************************************************************************)
Notify(note) == editorInbox' = Push(editorInbox, note)

EngineHead(path) ==
    /\ engineInbox # <<>>
    /\ Head(engineInbox).path = path
    /\ CanSend(editorInbox)
    /\ engineInbox' = Tail(engineInbox)

\* the argc guard of GraphicsEngine::handleCreateNode
handleCreateNode_guard(msg) == Argc(msg) >= 3

\* GraphicsEngine::handleCreateNode, with createNode
EngineHandleCreateNode ==
    /\ EngineHead(CREATE_NODE)
    /\ LET msg == Head(engineInbox) IN
       IF handleCreateNode_guard(msg)
       THEN LET id == ArgI(msg, 1, bigEndian)
                name == ArgS(msg, 2)
                type == ArgS(msg, 3)
            IN /\ engineGraph' = NodeGraph_addNode(engineGraph,
                                     MkNode(id, name, stringToNodeType(type)))
               /\ Notify(SendS(NODE_CREATED, Join3(to_string(id), name, type),
                               "engine", <<>>))
       ELSE UNCHANGED <<engineGraph, editorInbox>>
    /\ UNCHANGED <<engConnCounter, edNextNodeId, edConnected, edLocalGraph,
                   ciNextId, ciConnected, bigEndian>>
    /\ UNCHANGED NotOsc

\* GraphicsEngine::handleDeleteNode, with deleteNode
EngineHandleDeleteNode ==
    /\ EngineHead(DELETE_NODE)
    /\ LET msg == Head(engineInbox) IN
       IF Argc(msg) >= 1
       THEN LET id == ArgI(msg, 1, bigEndian)
            IN /\ engineGraph' = NodeGraph_removeNode(engineGraph, id)
               /\ Notify(SendS(NODE_DELETED, to_string(id), "engine", <<>>))
       ELSE UNCHANGED <<engineGraph, editorInbox>>
    /\ UNCHANGED <<engConnCounter, edNextNodeId, edConnected, edLocalGraph,
                   ciNextId, ciConnected, bigEndian>>
    /\ UNCHANGED NotOsc

\* GraphicsEngine::handleSetParameter, with updateNodeParameter: the nodes
\* made by createNode own no Parameter, so getParameter finds none
EngineHandleSetParameter ==
    /\ EngineHead(SET_PARAMETER)
    /\ LET msg == Head(engineInbox) IN
       IF Argc(msg) >= 3
       THEN LET node_id == ArgI(msg, 1, bigEndian)
                param_name == ArgS(msg, 2)
                value == ArgS(msg, 3)
            IN /\ Notify(SendS(PARAMETER_UPDATED,
                               Join3(to_string(node_id), param_name, value),
                               "engine", <<>>))
       ELSE UNCHANGED editorInbox
    /\ UNCHANGED <<engineGraph, engConnCounter, edNextNodeId, edConnected,
                   edLocalGraph, ciNextId, ciConnected, bigEndian>>
    /\ UNCHANGED NotOsc

\* GraphicsEngine::handleConnectNodes, with connectNodes
EngineHandleConnectNodes ==
    /\ EngineHead(CONNECT_NODES)
    /\ LET msg == Head(engineInbox) IN
       IF Argc(msg) >= 4
       THEN LET source_id == ArgI(msg, 1, bigEndian)
                source_output == ArgS(msg, 2)
                target_id == ArgI(msg, 3, bigEndian)
                target_input == ArgS(msg, 4)
            IN /\ engConnCounter <= MaxEngConnId
               /\ engineGraph' = NodeGraph_addConnection(engineGraph,
                                     MkConnection(engConnCounter, source_id,
                                                  source_output, target_id, target_input))
               /\ engConnCounter' = engConnCounter + 1
               /\ Notify(SendS(CONNECTION_CREATED,
                               Join4(to_string(source_id), source_output,
                                     to_string(target_id), target_input),
                               "engine", <<>>))
       ELSE UNCHANGED <<engineGraph, engConnCounter, editorInbox>>
    /\ UNCHANGED <<edNextNodeId, edConnected, edLocalGraph,
                   ciNextId, ciConnected, bigEndian>>
    /\ UNCHANGED NotOsc

\* GraphicsEngine::handleDisconnectNodes, with disconnectNodes
EngineHandleDisconnectNodes ==
    /\ EngineHead(DISCONNECT_NODES)
    /\ LET msg == Head(engineInbox) IN
       IF Argc(msg) >= 1
       THEN LET connection_id == ArgI(msg, 1, bigEndian)
            IN /\ engineGraph' = NodeGraph_removeConnection(engineGraph, connection_id)
               /\ Notify(SendS(CONNECTION_DELETED, to_string(connection_id),
                               "engine", <<>>))
       ELSE UNCHANGED <<engineGraph, editorInbox>>
    /\ UNCHANGED <<engConnCounter, edNextNodeId, edConnected, edLocalGraph,
                   ciNextId, ciConnected, bigEndian>>
    /\ UNCHANGED NotOsc

(***************************************************************************)
(* NodeEditor's handlers for the engine's notifications.                  *)
(***************************************************************************)
EditorHead(path) ==
    /\ editorInbox # <<>>
    /\ Head(editorInbox).path = path
    /\ editorInbox' = Tail(editorInbox)

\* NodeEditor::handleNodeCreated
EditorHandleNodeCreated ==
    /\ EditorHead(NODE_CREATED)
    /\ LET msg == Head(editorInbox) IN
       IF Argc(msg) >= 3
       THEN /\ edNextNodeId' = Max(edNextNodeId, ArgI(msg, 1, bigEndian) + 1)
       ELSE UNCHANGED edNextNodeId
    /\ UNCHANGED <<engineInbox, engineGraph, engConnCounter, edConnected,
                   edLocalGraph, ciNextId, ciConnected, bigEndian>>
    /\ UNCHANGED NotOsc

\* NodeEditor::handleNodeDeleted
EditorHandleNodeDeleted ==
    /\ EditorHead(NODE_DELETED)
    /\ LET msg == Head(editorInbox) IN
       IF Argc(msg) >= 1
       THEN /\ edLocalGraph' = NodeGraph_removeNode(edLocalGraph,
                                                    ArgI(msg, 1, bigEndian))
       ELSE UNCHANGED edLocalGraph
    /\ UNCHANGED <<engineInbox, engineGraph, engConnCounter, edNextNodeId,
                   edConnected, ciNextId, ciConnected, bigEndian>>
    /\ UNCHANGED NotOsc

\* NodeEditor::handleConnectionCreated
EditorHandleConnectionCreated ==
    /\ EditorHead(CONNECTION_CREATED)
    /\ UNCHANGED <<engineInbox, engineGraph, engConnCounter, edNextNodeId,
                   edConnected, edLocalGraph, ciNextId, ciConnected, bigEndian>>
    /\ UNCHANGED NotOsc

\* NodeEditor::handleConnectionDeleted
EditorHandleConnectionDeleted ==
    /\ EditorHead(CONNECTION_DELETED)
    /\ LET msg == Head(editorInbox) IN
       IF Argc(msg) >= 1
       THEN /\ edLocalGraph' = NodeGraph_removeConnection(edLocalGraph,
                                                          ArgI(msg, 1, bigEndian))
       ELSE UNCHANGED edLocalGraph
    /\ UNCHANGED <<engineInbox, engineGraph, engConnCounter, edNextNodeId,
                   edConnected, ciNextId, ciConnected, bigEndian>>
    /\ UNCHANGED NotOsc

\* NodeEditor::handleParameterUpdated
EditorHandleParameterUpdated ==
    /\ EditorHead(PARAMETER_UPDATED)
    /\ UNCHANGED <<engineInbox, engineGraph, engConnCounter, edNextNodeId,
                   edConnected, edLocalGraph, ciNextId, ciConnected, bigEndian>>
    /\ UNCHANGED NotOsc

\* NodeEditor::handleEngineStatus on an /engine/status message from the
\* engine's run() ("running") or shutdown() ("shutting_down")
EditorHandleEngineStatus ==
    \E status \in {"running", "shutting_down"} :
        /\ edConnected' = (status = "running")
        /\ UNCHANGED <<engineInbox, editorInbox, engineGraph, engConnCounter,
                       edNextNodeId, edLocalGraph, ciNextId, ciConnected, bigEndian>>
        /\ UNCHANGED NotOsc

\* CodeInterpreter::handleEngineStatus
InterpHandleEngineStatus ==
    \E status \in {"running", "shutting_down"} :
        /\ ciConnected' = (status = "running")
        /\ UNCHANGED <<engineInbox, editorInbox, engineGraph, engConnCounter,
                       edNextNodeId, edConnected, edLocalGraph, ciNextId, bigEndian>>
        /\ UNCHANGED NotOsc

InitOsc == OscStart /\ bigEndian \in BOOLEAN /\ NGIdle /\ SvIdle /\ ErIdle /\ OsIdle /\ PgIdle /\ SmIdle /\ EsIdle /\ PiIdle /\ CiIdle /\ LpIdle /\ MfIdle /\ SrIdle /\ PrIdle /\ IdIdle /\ EtIdle

NextOsc ==
    \/ EditorCreateNode
    \/ EditorDeleteNode
    \/ EditorConnectNodes
    \/ EditorDisconnectNodes
    \/ EditorUpdateParameter
    \/ InterpCreateNode
    \/ InterpDeleteNode
    \/ InterpConnectNodes
    \/ InterpSetParameter
    \/ ClientSend
    \/ EngineHandleCreateNode
    \/ EngineHandleDeleteNode
    \/ EngineHandleSetParameter
    \/ EngineHandleConnectNodes
    \/ EngineHandleDisconnectNodes
    \/ EditorHandleNodeCreated
    \/ EditorHandleNodeDeleted
    \/ EditorHandleConnectionCreated
    \/ EditorHandleConnectionDeleted
    \/ EditorHandleParameterUpdated
    \/ EditorHandleEngineStatus
    \/ InterpHandleEngineStatus

SpecOsc == InitOsc /\ [][NextOsc]_vars

(***************************************************************************)
(* The steps in which a server thread takes a message off its port.       *)
(***************************************************************************)
EngineDispatches == engineInbox # <<>> /\ engineInbox' = Tail(engineInbox)

EditorDispatches == editorInbox # <<>> /\ editorInbox' = Tail(editorInbox)

(***************************************************************************)
(* C1: every create-node request sent by the Node Editor or by the Code   *)
(* Interpreter's createNode reaches GraphicsEngine::handleCreateNode as   *)
(* (int id, string name, string type), and after the handler the engine's *)
(* graph holds a node with that id, name and type.                        *)
(***************************************************************************)
C1_CreateRequestApplied ==
    [][(/\ EngineDispatches
        /\ Head(engineInbox).path = CREATE_NODE
        /\ Head(engineInbox).from \in {"editor", "interp"}) =>
           LET want == Head(engineInbox).intent IN
           /\ Types(Head(engineInbox)) = <<"i", "s", "s">>
           /\ want[1] \in DOMAIN engineGraph'.nodes
           /\ engineGraph'.nodes[want[1]]
                  = MkNode(want[1], want[2], stringToNodeType(want[3]))]_vars

(***************************************************************************)
(* C2: every notification the engine sends for a request it applied has   *)
(* the argument types, in order, of that request, and the editor's        *)
(* handler for the notification accepts it (its argument-count guard      *)
(* passes and each argument has the type the handler reads it as).        *)
(***************************************************************************)
EditorHandlerShape(path) ==
    CASE path = NODE_CREATED -> <<"i", "s", "s">>
      [] path = NODE_DELETED -> <<"i">>
      [] path = PARAMETER_UPDATED -> <<"i", "s", "s">>
      [] path = CONNECTION_CREATED -> <<"i", "s", "i", "s">>
      [] path = CONNECTION_DELETED -> <<"i">>
      [] OTHER -> <<>>

C2_NotificationMirrorsRequest ==
    [][/\ (EngineDispatches /\ editorInbox' # editorInbox) =>
              Types(editorInbox'[Len(editorInbox')]) = Types(Head(engineInbox))
       /\ EditorDispatches =>
              Types(Head(editorInbox)) = EditorHandlerShape(Head(editorInbox).path)]_vars

(***************************************************************************)
(* Life cycle of the Node Editor and of the Code Interpreter              *)
(* (NodeEditor.h 278-527, CodeInterpreter.cpp 24-122): run(), the status  *)
(* and quit handlers on the OSC thread, and shutdown() step by step.      *)
(* shutdown() is called by the destructor once run() has returned, and by *)
(* the signal handler of main.cpp, taken here at the head of the loop.    *)
(* The outbound clients are connected by initialize(): lo_address_new of  *)
(* "localhost" and a port resolves nothing and does not fail.             *)
(***************************************************************************)
StatusValues == {"running", "shutting_down"}

SvRun(s) ==
    /\ svPc[s] = "constructed"
    /\ \E ok \in BOOLEAN :
        IF ok
        THEN /\ svPc' = [svPc EXCEPT ![s] = "loop"]
             /\ svServerUp' = [svServerUp EXCEPT ![s] = TRUE]
             /\ svEngineConnected' = [svEngineConnected EXCEPT ![s] = TRUE]
             /\ svEditorConnected' = IF s = "interp" THEN TRUE ELSE svEditorConnected
             /\ svRunning' = [svRunning EXCEPT ![s] = TRUE]
        ELSE /\ svPc' = [svPc EXCEPT ![s] = "returned"]
             /\ UNCHANGED <<svServerUp, svEngineConnected, svEditorConnected, svRunning>>
    /\ UNCHANGED <<svRet, svShouldClose, svLog>>
    /\ UNCHANGED NotSv

SvHandleEngineStatus(s) ==
    /\ svServerUp[s]
    /\ \E status \in StatusValues :
        svEngineConnected' = [svEngineConnected EXCEPT ![s] = (status = "running")]
    /\ UNCHANGED <<svPc, svRet, svRunning, svEditorConnected, svShouldClose, svServerUp, svLog>>
    /\ UNCHANGED NotSv

SvHandleNodeEditorStatus ==
    /\ svServerUp["interp"]
    /\ \E status \in StatusValues : svEditorConnected' = (status = "running")
    /\ UNCHANGED <<svPc, svRet, svRunning, svEngineConnected, svShouldClose, svServerUp, svLog>>
    /\ UNCHANGED NotSv

SvHandleQuit(s) ==
    /\ svServerUp[s]
    /\ svRunning' = [svRunning EXCEPT ![s] = FALSE]
    /\ UNCHANGED <<svPc, svRet, svEngineConnected, svEditorConnected, svShouldClose, svServerUp, svLog>>
    /\ UNCHANGED NotSv

SvWindowClose ==
    /\ svPc["editor"] = "loop"
    /\ ~svShouldClose
    /\ svShouldClose' = TRUE
    /\ UNCHANGED <<svPc, svRet, svRunning, svEngineConnected, svEditorConnected, svServerUp, svLog>>
    /\ UNCHANGED NotSv

SvLoopExit(s) ==
    /\ svPc[s] = "loop"
    /\ ~svRunning[s] \/ (s = "editor" /\ svShouldClose)
    /\ svPc' = [svPc EXCEPT ![s] = "returned"]
    /\ UNCHANGED <<svRet, svRunning, svEngineConnected, svEditorConnected, svShouldClose, svServerUp, svLog>>
    /\ UNCHANGED NotSv

SvCallShutdown(s) ==
    /\ svPc[s] \in {"loop", "returned"}
    /\ svRet' = [svRet EXCEPT ![s] = IF svPc[s] = "loop" THEN "loop" ELSE "destroyed"]
    /\ svPc' = [svPc EXCEPT ![s] = "sd_guard"]
    /\ UNCHANGED <<svRunning, svEngineConnected, svEditorConnected, svShouldClose, svServerUp, svLog>>
    /\ UNCHANGED NotSv

SvLogged(s, events) == [svLog EXCEPT ![s] = svLog[s] \o events]

SvShutdownGuard(s) ==
    /\ svPc[s] = "sd_guard"
    /\ IF ~svRunning[s]
       THEN /\ svPc' = [svPc EXCEPT ![s] = svRet[s]]
            /\ UNCHANGED svRunning
       ELSE /\ svPc' = [svPc EXCEPT ![s] = "sd_notify_engine"]
            /\ svRunning' = [svRunning EXCEPT ![s] = FALSE]
    /\ UNCHANGED <<svRet, svEngineConnected, svEditorConnected, svShouldClose, svServerUp, svLog>>
    /\ UNCHANGED NotSv

SvNotifyEngine(s) ==
    /\ svPc[s] = "sd_notify_engine"
    /\ svLog' = IF svEngineConnected[s] THEN SvLogged(s, <<"status_engine">>) ELSE svLog
    /\ svPc' = [svPc EXCEPT ![s] = "sd_notify_peer"]
    /\ UNCHANGED <<svRet, svRunning, svEngineConnected, svEditorConnected, svShouldClose, svServerUp>>
    /\ UNCHANGED NotSv

SvNotifyPeer(s) ==
    /\ svPc[s] = "sd_notify_peer"
    /\ svLog' = IF s = "editor" \/ svEditorConnected
                THEN SvLogged(s, <<"status_peer">>) ELSE svLog
    /\ svPc' = [svPc EXCEPT ![s] = IF s = "editor" THEN "sd_imgui" ELSE "sd_script"]
    /\ UNCHANGED <<svRet, svRunning, svEngineConnected, svEditorConnected, svShouldClose, svServerUp>>
    /\ UNCHANGED NotSv

SvShutdownImGui ==
    /\ svPc["editor"] = "sd_imgui"
    /\ svLog' = SvLogged("editor", <<"gui", "window">>)
    /\ svPc' = [svPc EXCEPT !["editor"] = "sd_server"]
    /\ UNCHANGED <<svRet, svRunning, svEngineConnected, svEditorConnected, svShouldClose, svServerUp>>
    /\ UNCHANGED NotSv

SvShutdownAngelScript ==
    /\ svPc["interp"] = "sd_script"
    /\ svPc' = [svPc EXCEPT !["interp"] = "sd_server"]
    /\ UNCHANGED <<svRet, svRunning, svEngineConnected, svEditorConnected, svShouldClose, svServerUp, svLog>>
    /\ UNCHANGED NotSv

SvStopServer(s) ==
    /\ svPc[s] = "sd_server"
    /\ svServerUp' = [svServerUp EXCEPT ![s] = FALSE]
    /\ svLog' = SvLogged(s, <<"osc_server">>)
    /\ svPc' = [svPc EXCEPT ![s] = "sd_clients"]
    /\ UNCHANGED <<svRet, svRunning, svEngineConnected, svEditorConnected, svShouldClose>>
    /\ UNCHANGED NotSv

SvDisconnectClients(s) ==
    /\ svPc[s] = "sd_clients"
    /\ svLog' = SvLogged(s, <<"clients">>)
    /\ svPc' = [svPc EXCEPT ![s] = svRet[s]]
    /\ UNCHANGED <<svRet, svRunning, svEngineConnected, svEditorConnected, svShouldClose, svServerUp>>
    /\ UNCHANGED NotSv

InitServices == SvIdle /\ NGIdle /\ OscIdle /\ ErIdle /\ OsIdle /\ PgIdle /\ SmIdle /\ EsIdle /\ PiIdle /\ CiIdle /\ LpIdle /\ MfIdle /\ SrIdle /\ PrIdle /\ IdIdle /\ EtIdle

NextServices ==
    \/ \E s \in Services : SvRun(s)
    \/ \E s \in Services : SvHandleEngineStatus(s)
    \/ SvHandleNodeEditorStatus
    \/ \E s \in Services : SvHandleQuit(s)
    \/ SvWindowClose
    \/ \E s \in Services : SvLoopExit(s)
    \/ \E s \in Services : SvCallShutdown(s)
    \/ \E s \in Services : SvShutdownGuard(s)
    \/ \E s \in Services : SvNotifyEngine(s)
    \/ \E s \in Services : SvNotifyPeer(s)
    \/ SvShutdownImGui
    \/ SvShutdownAngelScript
    \/ \E s \in Services : SvStopServer(s)
    \/ \E s \in Services : SvDisconnectClients(s)

SpecServices == InitServices /\ [][NextServices]_vars

(***************************************************************************)
(* C3: when shutdown() of the Node Editor or of the Code Interpreter      *)
(* runs, "shutting_down" goes to both peers before any teardown step, and *)
(* teardown follows in the order GUI layer, window, OSC server, outbound  *)
(* connections (OSC server, outbound connections for the interpreter):    *)
(* what shutdown() has done so far is always a prefix of that sequence.   *)
(***************************************************************************)
C3_ShutdownOrder ==
    \A s \in Services :
        LET expected == IF s = "editor"
                        THEN <<"status_engine", "status_peer", "gui", "window",
                               "osc_server", "clients">>
                        ELSE <<"status_engine", "status_peer", "osc_server", "clients">>
        IN /\ Len(svLog[s]) <= Len(expected)
           /\ svLog[s] = SubSeq(expected, 1, Len(svLog[s]))

(***************************************************************************)
(* GraphicsEngine::run (part_017 75-112) step by step, with the quit      *)
(* handler on the OSC thread and shutdown() called from the signal        *)
(* handler at the head of the loop or from the destructor.  initialize()  *)
(* starts the OSC server and registers the handlers before run() sets     *)
(* running_.                                                              *)
(***************************************************************************)
MaxQuitMsgs == 2

MaxFrames == 2

ErInitialize ==
    /\ erPc = "constructed"
    /\ \E ok \in BOOLEAN :
        IF ok
        THEN /\ erPc' = "initialized"
             /\ erContext' = TRUE
             /\ erServerUp' = TRUE
        ELSE /\ erPc' = "returned"
             /\ UNCHANGED <<erContext, erServerUp>>
    /\ UNCHANGED <<erRunning, erShouldClose, erQuitInFlight, erFrames, erStopRequested>>
    /\ UNCHANGED NotEr

ErSetRunning ==
    /\ erPc = "initialized"
    /\ erRunning' = TRUE
    /\ erPc' = "loop_check"
    /\ UNCHANGED <<erContext, erShouldClose, erServerUp, erQuitInFlight, erFrames, erStopRequested>>
    /\ UNCHANGED NotEr

ErSendQuit ==
    /\ erQuitInFlight < MaxQuitMsgs
    /\ erQuitInFlight' = erQuitInFlight + 1
    /\ UNCHANGED <<erPc, erRunning, erContext, erShouldClose, erServerUp, erFrames, erStopRequested>>
    /\ UNCHANGED NotEr

ErHandleQuit ==
    /\ erServerUp
    /\ erQuitInFlight > 0
    /\ erQuitInFlight' = erQuitInFlight - 1
    /\ erRunning' = FALSE
    /\ erStopRequested' = TRUE
    /\ UNCHANGED <<erPc, erContext, erShouldClose, erServerUp, erFrames>>
    /\ UNCHANGED NotEr

ErLoopCheck ==
    /\ erPc = "loop_check"
    /\ erPc' = IF erRunning /\ erContext /\ ~erShouldClose THEN "body" ELSE "after_loop"
    /\ UNCHANGED <<erRunning, erContext, erShouldClose, erServerUp, erQuitInFlight, erFrames, erStopRequested>>
    /\ UNCHANGED NotEr

ErLoopBody ==
    /\ erPc = "body"
    /\ \E closeRequested \in BOOLEAN :
        /\ erShouldClose' = (erShouldClose \/ closeRequested)
        /\ erStopRequested' = (erStopRequested \/ closeRequested)
    /\ \E due \in BOOLEAN :
        erFrames' = IF due /\ erFrames < MaxFrames THEN erFrames + 1 ELSE erFrames
    /\ erPc' = "loop_check"
    /\ UNCHANGED <<erRunning, erContext, erServerUp, erQuitInFlight>>
    /\ UNCHANGED NotEr

ErAfterLoop ==
    /\ erPc = "after_loop"
    /\ erRunning' = IF erContext /\ erShouldClose THEN FALSE ELSE erRunning
    /\ erPc' = "returned"
    /\ UNCHANGED <<erContext, erShouldClose, erServerUp, erQuitInFlight, erFrames, erStopRequested>>
    /\ UNCHANGED NotEr

ErShutdown ==
    /\ erPc \in {"loop_check", "returned"}
    /\ erPc' = IF erPc = "returned" THEN "destroyed" ELSE erPc
    /\ IF erRunning
       THEN /\ erRunning' = FALSE
            /\ erServerUp' = FALSE
            /\ erContext' = FALSE
       ELSE UNCHANGED <<erRunning, erServerUp, erContext>>
    /\ erRunning \/ erPc = "returned"
    /\ UNCHANGED <<erShouldClose, erQuitInFlight, erFrames, erStopRequested>>
    /\ UNCHANGED NotEr

InitEngineRun == ErIdle /\ NGIdle /\ OscIdle /\ SvIdle /\ OsIdle /\ PgIdle /\ SmIdle /\ EsIdle /\ PiIdle /\ CiIdle /\ LpIdle /\ MfIdle /\ SrIdle /\ PrIdle /\ IdIdle /\ EtIdle

NextEngineRun ==
    \/ ErInitialize
    \/ ErSetRunning
    \/ ErSendQuit
    \/ ErHandleQuit
    \/ ErLoopCheck
    \/ ErLoopBody
    \/ ErAfterLoop
    \/ ErShutdown

SpecEngineRun == InitEngineRun /\ [][NextEngineRun]_vars

(***************************************************************************)
(* C4: once the engine's window has requested close or a /engine/quit     *)
(* message has been handled, the run loop stops at its next iteration     *)
(* check; and when run() returns, the running flag is false.              *)
(***************************************************************************)
C4_LoopStopsOnRequest ==
    [][/\ (erPc = "loop_check" /\ erPc' # erPc /\ erStopRequested) => erPc' = "after_loop"
       /\ (erPc' = "returned") => ~erRunning']_vars

(***************************************************************************)
(* OSCServer (part_015): start(), stop() step by step on the owning       *)
(* thread, and serverThread() with the handler it dispatches from inside  *)
(* lo_server_recv_noblock.                                                *)
(***************************************************************************)
MaxStarts == 2

MaxOsMsgs == 2

OsStart ==
    /\ osCaller \in {"idle", "returned"}
    /\ osStarts < MaxStarts
    /\ osStarts' = osStarts + 1
    /\ osCaller' = "idle"
    /\ IF osRunning
       THEN UNCHANGED <<osRunning, osServer, osThread>>
       ELSE \E created \in BOOLEAN :
               IF created
               THEN /\ osServer' = TRUE
                    /\ osRunning' = TRUE
                    /\ osThread' = "check"
               ELSE UNCHANGED <<osRunning, osServer, osThread>>
    /\ UNCHANGED <<osInFlight, osHandled>>
    /\ UNCHANGED NotOs

OsSend ==
    /\ osInFlight + osHandled < MaxOsMsgs
    /\ osInFlight' = osInFlight + 1
    /\ UNCHANGED <<osRunning, osServer, osThread, osCaller, osStarts, osHandled>>
    /\ UNCHANGED NotOs

OsStopBegin ==
    /\ osCaller \in {"idle", "returned"}
    /\ IF ~osRunning
       THEN /\ osCaller' = "returned"
            /\ UNCHANGED osRunning
       ELSE /\ osRunning' = FALSE
            /\ osCaller' = "join"
    /\ UNCHANGED <<osServer, osThread, osStarts, osInFlight, osHandled>>
    /\ UNCHANGED NotOs

OsStopJoin_NoWait ==
    /\ osCaller = "join"
    /\ osCaller' = "free"
    /\ UNCHANGED <<osRunning, osServer, osThread, osStarts, osInFlight, osHandled>>
    /\ UNCHANGED NotOs

OsStopJoin ==
    /\ osCaller = "join"
    /\ osThread = "exited"
    /\ osThread' = "none"
    /\ osCaller' = "free"
    /\ UNCHANGED <<osRunning, osServer, osStarts, osInFlight, osHandled>>
    /\ UNCHANGED NotOs

OsStopFree ==
    /\ osCaller = "free"
    /\ osServer' = FALSE
    /\ osCaller' = "returned"
    /\ UNCHANGED <<osRunning, osThread, osStarts, osInFlight, osHandled>>
    /\ UNCHANGED NotOs

OsThreadCheck ==
    /\ osThread = "check"
    /\ osThread' = IF osRunning THEN "recv" ELSE "exited"
    /\ UNCHANGED <<osRunning, osServer, osCaller, osStarts, osInFlight, osHandled>>
    /\ UNCHANGED NotOs

OsThreadRecv ==
    /\ osThread = "recv"
    /\ \/ /\ osInFlight > 0
          /\ osInFlight' = osInFlight - 1
          /\ osThread' = "handler"
       \/ /\ osThread' = "check"
          /\ UNCHANGED osInFlight
    /\ UNCHANGED <<osRunning, osServer, osCaller, osStarts, osHandled>>
    /\ UNCHANGED NotOs

OsHandlerReturns ==
    /\ osThread = "handler"
    /\ osHandled' = osHandled + 1
    /\ osThread' = "check"
    /\ UNCHANGED <<osRunning, osServer, osCaller, osStarts, osInFlight>>
    /\ UNCHANGED NotOs

InitOscServer == OsIdle /\ NGIdle /\ OscIdle /\ SvIdle /\ ErIdle /\ PgIdle /\ SmIdle /\ EsIdle /\ PiIdle /\ CiIdle /\ LpIdle /\ MfIdle /\ SrIdle /\ PrIdle /\ IdIdle /\ EtIdle

NextOscServer ==
    \/ OsStart
    \/ OsSend
    \/ OsStopBegin
    \/ OsStopJoin
    \/ OsStopFree
    \/ OsThreadCheck
    \/ OsThreadRecv
    \/ OsHandlerReturns

SpecOscServer == InitOscServer /\ [][NextOscServer]_vars

(***************************************************************************)
(* C5: OSCServer::stop() returns only after the receive loop has exited,  *)
(* and the socket is released only after the loop has been joined: once   *)
(* stop() has returned no handler is running or can start, and the loop   *)
(* never runs on a released socket.                                       *)
(***************************************************************************)
C5_StopJoinsBeforeRelease ==
    /\ osCaller = "returned" => osThread = "none"
    /\ osThread \in {"check", "recv", "handler", "exited"} => osServer

C5_Witness ==
    /\ osCaller = "returned"
    /\ osStarts > 0
    /\ osHandled > 0
    /\ ~osServer

(***************************************************************************)
(* PipelineGraph (src/src/graphics/PipelineGraph.cpp).  nodes_ is a       *)
(* sequence of [id, module], connections_ a sequence of                   *)
(* [fromNodeId, fromPort, toNodeId, toPort].  The model draws its modules *)
(* from two of the ten the factory registers: "noise" (GeneratorModules)  *)
(* and "math" (OperatorModules).                                          *)
(***************************************************************************)
MaxPgNodes == 3

MaxPgConns == 2

ModuleNames == {"noise", "math"}

ModulePort(name, type, required, defaultValue) ==
    [name |-> name, type |-> type, required |-> required, defaultValue |-> defaultValue]

getInputPorts(module) ==
    IF module = "noise"
    THEN <<ModulePort("uv", "VEC2", TRUE, ""),
           ModulePort("scale", "FLOAT", FALSE, "3.0"),
           ModulePort("time", "FLOAT", FALSE, "0.0")>>
    ELSE <<ModulePort("a", "FLOAT", TRUE, ""),
           ModulePort("b", "FLOAT", TRUE, ""),
           ModulePort("operation", "FLOAT", FALSE, "0.0")>>

getOutputPorts(module) == <<ModulePort("output", "FLOAT", TRUE, "")>>

\* findNode: the nodes with this id, in order; the empty sequence is nullptr.
PipelineGraph_findNode(g, nodeId) ==
    LET Is(node) == node.id = nodeId IN SelectSeq(g.nodes, Is)

PipelineGraph_addNode(g, moduleName) ==
    IF moduleName \notin ModuleNames
    THEN g
    ELSE [g EXCEPT !.nodes = Append(@, [id |-> g.nextNodeId, module |-> moduleName]),
                   !.nextNodeId = @ + 1]

PipelineGraph_removeNode_KeepOutput(g, nodeId) ==
    LET KeepC(conn) == ~(conn.fromNodeId = nodeId \/ conn.toNodeId = nodeId)
        KeepN(node) == node.id # nodeId
    IN [g EXCEPT !.connections = SelectSeq(@, KeepC),
                 !.nodes = SelectSeq(@, KeepN)]

PipelineGraph_removeNode(g, nodeId) ==
    LET KeepC(conn) == ~(conn.fromNodeId = nodeId \/ conn.toNodeId = nodeId)
        KeepN(node) == node.id # nodeId
        found == PipelineGraph_findNode(g, nodeId) # <<>>
    IN [g EXCEPT !.connections = SelectSeq(@, KeepC),
                 !.nodes = SelectSeq(@, KeepN),
                 !.outputNodeId = IF found /\ @ = nodeId THEN -1 ELSE @]

PipelineGraph_removeConnection(g, toNodeId, toPort) ==
    LET Keep(conn) == ~(conn.toNodeId = toNodeId /\ conn.toPort = toPort)
    IN [g EXCEPT !.connections = SelectSeq(@, Keep)]

PipelineGraph_addConnection_NoReplace(g, fromNodeId, fromPort, toNodeId, toPort) ==
    IF PipelineGraph_findNode(g, fromNodeId) = <<>> \/ PipelineGraph_findNode(g, toNodeId) = <<>>
    THEN g
    ELSE [g EXCEPT !.connections =
             Append(@, [fromNodeId |-> fromNodeId, fromPort |-> fromPort,
                        toNodeId |-> toNodeId, toPort |-> toPort])]

PipelineGraph_addConnection(g, fromNodeId, fromPort, toNodeId, toPort) ==
    LET fromNode == PipelineGraph_findNode(g, fromNodeId)
        toNode == PipelineGraph_findNode(g, toNodeId)
    IN IF fromNode = <<>> \/ toNode = <<>>
       THEN g
       ELSE LET fromOutputs == getOutputPorts(Head(fromNode).module)
                toInputs == getInputPorts(Head(toNode).module)
                fromPortValid == \E i \in DOMAIN fromOutputs : fromOutputs[i].name = fromPort
                toPortValid == \E i \in DOMAIN toInputs : toInputs[i].name = toPort
            IN IF ~fromPortValid \/ ~toPortValid
               THEN g
               ELSE [g EXCEPT !.connections =
                        Append(PipelineGraph_removeConnection(g, toNodeId, toPort).connections,
                               [fromNodeId |-> fromNodeId, fromPort |-> fromPort,
                                toNodeId |-> toNodeId, toPort |-> toPort])]

\* what addConnection returns: false at either early return, true at the end
PipelineGraph_addConnection_ret(g, fromNodeId, fromPort, toNodeId, toPort) ==
    LET fromNode == PipelineGraph_findNode(g, fromNodeId)
        toNode == PipelineGraph_findNode(g, toNodeId)
    IN /\ fromNode # <<>>
       /\ toNode # <<>>
       /\ \E i \in DOMAIN getOutputPorts(Head(fromNode).module) :
              getOutputPorts(Head(fromNode).module)[i].name = fromPort
       /\ \E i \in DOMAIN getInputPorts(Head(toNode).module) :
              getInputPorts(Head(toNode).module)[i].name = toPort

PipelineGraph_disconnect(g, fromNodeId, fromPort, toNodeId, toPort) ==
    LET Keep(conn) == ~(/\ conn.fromNodeId = fromNodeId /\ conn.fromPort = fromPort
                        /\ conn.toNodeId = toNodeId /\ conn.toPort = toPort)
    IN [g EXCEPT !.connections = SelectSeq(@, Keep)]

PipelineGraph_setOutputNode(g, nodeId) == [g EXCEPT !.outputNodeId = nodeId]

(***************************************************************************)
(* getTopologicalOrderIds: Kahn's algorithm.  inDegree is an              *)
(* unordered_map, so the order in which the nodes of in-degree 0 enter    *)
(* the queue is any order; from there the run is determined.              *)
(***************************************************************************)
Kahn_inDegree(g) ==
    [id \in {g.nodes[i].id : i \in DOMAIN g.nodes}
            \cup {g.connections[i].toNodeId : i \in DOMAIN g.connections} |->
        Cardinality({i \in DOMAIN g.connections : g.connections[i].toNodeId = id})]

Kahn_adjList(g, nodeId) ==
    LET From(conn) == conn.fromNodeId = nodeId
        out == SelectSeq(g.connections, From)
    IN [i \in DOMAIN out |-> out[i].toNodeId]

Kahn_queues_AllNodes(g) ==
    LET all == DOMAIN Kahn_inDegree(g)
    IN {q \in [1..Cardinality(all) -> all] :
            \A i, j \in DOMAIN q : i # j => q[i] # q[j]}

Kahn_queues(g) ==
    LET inDegree == Kahn_inDegree(g)
        zero == {id \in DOMAIN inDegree : inDegree[id] = 0}
    IN {q \in [1..Cardinality(zero) -> zero] :
            \A i, j \in DOMAIN q : i # j => q[i] # q[j]}

RECURSIVE Kahn_neighbors(_, _, _)
Kahn_neighbors(neighbors, inDegree, queue) ==
    IF neighbors = <<>>
    THEN [inDegree |-> inDegree, queue |-> queue]
    ELSE LET neighbor == Head(neighbors)
         IN Kahn_neighbors(Tail(neighbors),
                           [inDegree EXCEPT ![neighbor] = @ - 1],
                           IF inDegree[neighbor] - 1 = 0
                           THEN Append(queue, neighbor) ELSE queue)

RECURSIVE Kahn_run(_, _, _, _)
Kahn_run(g, queue, inDegree, result) ==
    IF queue = <<>>
    THEN result
    ELSE LET current == Head(queue)
             next == Kahn_neighbors(Kahn_adjList(g, current), inDegree, Tail(queue))
         IN Kahn_run(g, next.queue, next.inDegree, Append(result, current))

PipelineGraph_getTopologicalOrderIds_NoSizeCheck(g, queue) ==
    [threw |-> FALSE, order |-> Kahn_run(g, queue, Kahn_inDegree(g), <<>>)]

PipelineGraph_getTopologicalOrderIds(g, queue) ==
    LET result == Kahn_run(g, queue, Kahn_inDegree(g), <<>>)
    IN IF Len(result) # Len(g.nodes)
       THEN [threw |-> TRUE, order |-> <<>>]
       ELSE [threw |-> FALSE, order |-> result]

PipelineGraph_getTopologicalOrder(g, queue) ==
    LET sortedIds == PipelineGraph_getTopologicalOrderIds(g, queue)
        Found(id) == PipelineGraph_findNode(g, id) # <<>>
    IN [sortedIds EXCEPT !.order = SelectSeq(@, Found)]

RECURSIVE PipelineGraph_warnings(_, _)
PipelineGraph_warnings(g, nodes) ==
    IF nodes = <<>>
    THEN <<>>
    ELSE LET node == Head(nodes)
             Unconnected(port) ==
                 /\ port.required
                 /\ ~\E i \in DOMAIN g.connections :
                        /\ g.connections[i].toNodeId = node.id
                        /\ g.connections[i].toPort = port.name
                 /\ port.defaultValue = ""
             open == SelectSeq(getInputPorts(node.module), Unconnected)
         IN [i \in DOMAIN open |-> <<node.id, open[i].name>>]
                \o PipelineGraph_warnings(g, Tail(nodes))

PipelineGraph_validateGraph(g, queue) ==
    LET outputErrors ==
            IF g.outputNodeId = -1 THEN <<"No output node specified">>
            ELSE IF PipelineGraph_findNode(g, g.outputNodeId) = <<>>
                 THEN <<"Output node does not exist">>
                 ELSE <<>>
        cycleErrors ==
            IF PipelineGraph_getTopologicalOrderIds(g, queue).threw
            THEN <<"Circular dependency detected">> ELSE <<>>
    IN [isValid |-> outputErrors \o cycleErrors = <<>>,
        errors |-> outputErrors \o cycleErrors,
        warnings |-> PipelineGraph_warnings(g, g.nodes)]

(***************************************************************************)
(* collectDependencies: the depth-first walk from nodeId against the      *)
(* direction of the connections, in the order of connections_; a node is  *)
(* appended after the nodes it depends on.                                *)
(***************************************************************************)
RECURSIVE PipelineGraph_dfs(_, _, _)
RECURSIVE PipelineGraph_dfsInputs(_, _, _, _)
PipelineGraph_dfs(g, currentId, walk) ==
    IF currentId \in walk.visited
    THEN walk
    ELSE LET inputs == PipelineGraph_dfsInputs(g, currentId, 1,
                           [walk EXCEPT !.visited = @ \cup {currentId}])
         IN [inputs EXCEPT !.dependencies = Append(@, currentId)]

PipelineGraph_dfsInputs(g, currentId, i, walk) ==
    IF i > Len(g.connections)
    THEN walk
    ELSE PipelineGraph_dfsInputs(g, currentId, i + 1,
             IF g.connections[i].toNodeId = currentId
             THEN PipelineGraph_dfs(g, g.connections[i].fromNodeId, walk)
             ELSE walk)

PipelineGraph_collectDependencies_DirectOnly(g, nodeId) ==
    LET Into(conn) == conn.toNodeId = nodeId /\ conn.fromNodeId # nodeId
        direct == SelectSeq(g.connections, Into)
    IN IF direct = <<>> THEN <<nodeId>> ELSE <<direct[1].fromNodeId, nodeId>>

PipelineGraph_collectDependencies(g, nodeId) ==
    PipelineGraph_dfs(g, nodeId, [visited |-> {}, dependencies |-> <<>>]).dependencies

\* extractSubgraphTo, first loop: the nodes of the dependencies that exist
\* are added to the subgraph and entered in idMapping
RECURSIVE extractSubgraphTo_nodes(_, _, _, _)
extractSubgraphTo_nodes(g, nodeId, dependencies, built) ==
    IF dependencies = <<>>
    THEN built
    ELSE LET originalId == Head(dependencies)
             originalNode == PipelineGraph_findNode(g, originalId)
         IN IF originalNode = <<>>
            THEN extractSubgraphTo_nodes(g, nodeId, Tail(dependencies), built)
            ELSE LET moduleName == Head(originalNode).module
                     newId == IF moduleName \in ModuleNames
                              THEN built.subGraph.nextNodeId ELSE -1
                     added == PipelineGraph_addNode(built.subGraph, moduleName)
                 IN extractSubgraphTo_nodes(g, nodeId, Tail(dependencies),
                        [subGraph |-> IF originalId = nodeId
                                      THEN PipelineGraph_setOutputNode(added, newId)
                                      ELSE added,
                         idMapping |-> [id \in DOMAIN built.idMapping \cup {originalId} |->
                                           IF id = originalId THEN newId
                                           ELSE built.idMapping[id]]])

\* extractSubgraphTo, second loop: the connections with both ends in
\* idMapping are connected in the subgraph
RECURSIVE extractSubgraphTo_connections(_, _, _)
extractSubgraphTo_connections(connections, idMapping, subGraph) ==
    IF connections = <<>>
    THEN subGraph
    ELSE LET conn == Head(connections)
         IN extractSubgraphTo_connections(Tail(connections), idMapping,
                IF conn.fromNodeId \in DOMAIN idMapping /\ conn.toNodeId \in DOMAIN idMapping
                THEN PipelineGraph_addConnection(subGraph, idMapping[conn.fromNodeId],
                         conn.fromPort, idMapping[conn.toNodeId], conn.toPort)
                ELSE subGraph)

PipelineGraph_extractSubgraphTo(g, nodeId) ==
    LET built == extractSubgraphTo_nodes(g, nodeId,
                     PipelineGraph_collectDependencies(g, nodeId),
                     [subGraph |-> PipelineGraph_new, idMapping |-> <<>>])
    IN extractSubgraphTo_connections(g.connections, built.idMapping, built.subGraph)

(***************************************************************************)
(* Specification of a PipelineGraph driven by arbitrary calls.            *)
(***************************************************************************)
PgNodeIds == 1..MaxPgNodes

PgFromPorts == {"output", "a"}

PgToPorts == {"a", "b", "uv"}

PgAddNode ==
    /\ pg.nextNodeId <= MaxPgNodes
    /\ \E moduleName \in ModuleNames \cup {"unknown"} :
        pg' = PipelineGraph_addNode(pg, moduleName)
    /\ pgResult' = [op |-> "none"]
    /\ UNCHANGED NotPg

\* removeNode, with what it returned; wasOutput and hadConnections record
\* what the graph held for nodeId when the call was made
PgRemoveNode ==
    /\ \E nodeId \in PgNodeIds :
        /\ pg' = PipelineGraph_removeNode(pg, nodeId)
        /\ pgResult' = [op |-> "removeNode", nodeId |-> nodeId,
                        ret |-> PipelineGraph_findNode(pg, nodeId) # <<>>,
                        wasOutput |-> pg.outputNodeId = nodeId,
                        hadConnections |->
                            \E i \in DOMAIN pg.connections :
                                \/ pg.connections[i].fromNodeId = nodeId
                                \/ pg.connections[i].toNodeId = nodeId]
    /\ UNCHANGED NotPg

\* addConnection, with what it returned and, when it returned true, the
\* connection it stored; hadIncoming and sourceExists record whether, when
\* the call was made, the target port had an incoming connection and the
\* source node had the source port among its outputs
PgAddConnection ==
    /\ \E fromNodeId \in PgNodeIds, toNodeId \in PgNodeIds,
          fromPort \in PgFromPorts, toPort \in PgToPorts :
        LET ret == PipelineGraph_addConnection_ret(pg, fromNodeId, fromPort, toNodeId, toPort)
            fromNode == PipelineGraph_findNode(pg, fromNodeId)
            called == [op |-> "addConnection", ret |-> ret,
                       hadIncoming |->
                           \E i \in DOMAIN pg.connections :
                               /\ pg.connections[i].toNodeId = toNodeId
                               /\ pg.connections[i].toPort = toPort,
                       sourceExists |->
                           /\ fromNode # <<>>
                           /\ \E o \in DOMAIN getOutputPorts(Head(fromNode).module) :
                                  getOutputPorts(Head(fromNode).module)[o].name = fromPort]
        IN /\ Len(PipelineGraph_addConnection(pg, fromNodeId, fromPort,
                                              toNodeId, toPort).connections) <= MaxPgConns
           /\ pg' = PipelineGraph_addConnection(pg, fromNodeId, fromPort, toNodeId, toPort)
           /\ pgResult' = IF ret
                          THEN called @@ [fromNodeId |-> fromNodeId, fromPort |-> fromPort,
                                          toNodeId |-> toNodeId, toPort |-> toPort]
                          ELSE called
    /\ UNCHANGED NotPg

PgRemoveConnection ==
    /\ \E toNodeId \in PgNodeIds, toPort \in PgToPorts :
        pg' = PipelineGraph_removeConnection(pg, toNodeId, toPort)
    /\ pgResult' = [op |-> "none"]
    /\ UNCHANGED NotPg

PgDisconnect ==
    /\ \E fromNodeId \in PgNodeIds, toNodeId \in PgNodeIds, toPort \in PgToPorts :
        pg' = PipelineGraph_disconnect(pg, fromNodeId, "output", toNodeId, toPort)
    /\ pgResult' = [op |-> "none"]
    /\ UNCHANGED NotPg

PgSetOutputNode ==
    /\ \E nodeId \in {1, MaxPgNodes} : pg' = PipelineGraph_setOutputNode(pg, nodeId)
    /\ pgResult' = [op |-> "none"]
    /\ UNCHANGED NotPg

PgGetTopologicalOrder ==
    /\ \E queue \in Kahn_queues(pg) :
        LET r == PipelineGraph_getTopologicalOrder(pg, queue)
        IN pgResult' = [op |-> "getTopologicalOrder", threw |-> r.threw, order |-> r.order]
    /\ UNCHANGED pg
    /\ UNCHANGED NotPg

PgValidateGraph ==
    /\ \E queue \in Kahn_queues(pg) :
        LET r == PipelineGraph_validateGraph(pg, queue)
        IN pgResult' = [op |-> "validateGraph", isValid |-> r.isValid,
                        errors |-> r.errors, warnings |-> r.warnings]
    /\ UNCHANGED pg
    /\ UNCHANGED NotPg

\* extractSubgraphTo of each node id the graph has handed out and of the
\* next one, which no node has
PgExtractSubgraphTo ==
    /\ \E nodeId \in 1..pg.nextNodeId :
        pgResult' = [op |-> "extractSubgraphTo", nodeId |-> nodeId,
                     subGraph |-> PipelineGraph_extractSubgraphTo(pg, nodeId)]
    /\ UNCHANGED pg
    /\ UNCHANGED NotPg

InitPipelineGraph == PgIdle /\ NGIdle /\ OscIdle /\ SvIdle /\ ErIdle /\ OsIdle /\ SmIdle /\ EsIdle /\ PiIdle /\ CiIdle /\ LpIdle /\ MfIdle /\ SrIdle /\ PrIdle /\ IdIdle /\ EtIdle

NextPipelineGraph ==
    \/ PgAddNode
    \/ PgRemoveNode
    \/ PgAddConnection
    \/ PgRemoveConnection
    \/ PgDisconnect
    \/ PgSetOutputNode
    \/ PgGetTopologicalOrder
    \/ PgValidateGraph

SpecPipelineGraph == InitPipelineGraph /\ [][NextPipelineGraph]_vars

(***************************************************************************)
(* Specification of the two queries on graphs drawn at the start: the     *)
(* graphs of up to TopoNodes "math" nodes, made by addNode, with up to    *)
(* TopoConns connections into their "a" and "b" inputs, made by           *)
(* addConnection in the order of the target ports, and with the last node *)
(* set as the output node.                                                *)
(***************************************************************************)
TopoNodes == 4

TopoConns == 4

TopoGraph(n, source) ==
    LET slot == [k \in 1..(2 * n) |->
                    [fromNodeId |-> IF k \in DOMAIN source THEN source[k] ELSE 0,
                     fromPort |-> "output",
                     toNodeId |-> (k + 1) \div 2,
                     toPort |-> IF k % 2 = 1 THEN "a" ELSE "b"]]
        Used(conn) == conn.fromNodeId # 0
    IN [nodes |-> [i \in 1..n |-> [id |-> i, module |-> "math"]],
        connections |-> SelectSeq(slot, Used),
        nextNodeId |-> n + 1,
        outputNodeId |-> n]

InitTopology ==
    /\ \E n \in 1..TopoNodes :
        \E used \in {K \in SUBSET (1..(2 * n)) : Cardinality(K) <= TopoConns} :
            \E source \in [used -> 1..n] : pg = TopoGraph(n, source)
    /\ pgResult = [op |-> "none"]
    /\ NGIdle /\ OscIdle /\ SvIdle /\ ErIdle /\ OsIdle /\ SmIdle /\ EsIdle /\ PiIdle /\ CiIdle /\ LpIdle /\ MfIdle /\ SrIdle /\ PrIdle /\ IdIdle /\ EtIdle

NextTopology ==
    \/ PgGetTopologicalOrder
    \/ PgValidateGraph

SpecTopology == InitTopology /\ [][NextTopology]_vars

\* Specification of extractSubgraphTo on the same graphs.
NextSubgraph == PgExtractSubgraphTo

SpecSubgraph == InitTopology /\ [][NextSubgraph]_vars

(***************************************************************************)
(* What the claims about the PipelineGraph speak of: the node ids, the    *)
(* edges, and whether the connections contain a cycle (a node reaches     *)
(* itself along one or more connections).                                 *)
(***************************************************************************)
PgIds(g) == {g.nodes[i].id : i \in DOMAIN g.nodes}

PgEdges(g) ==
    {<<g.connections[i].fromNodeId, g.connections[i].toNodeId>> : i \in DOMAIN g.connections}

RECURSIVE PgReach(_, _, _)
PgReach(edges, seen, k) ==
    IF k = 0
    THEN seen
    ELSE PgReach(edges, seen \cup {e[2] : e \in {x \in edges : x[1] \in seen}}, k - 1)

PgHasCycle(g) ==
    \E e \in PgEdges(g) : e[1] \in PgReach(PgEdges(g), {e[2]}, Len(g.nodes))

(***************************************************************************)
(* C8: for a PipelineGraph whose connections contain a cycle,             *)
(* validateGraph() returns an invalid result with the cycle error and     *)
(* getTopologicalOrder() throws; and getTopologicalOrder() never returns  *)
(* an order that leaves out a node.                                       *)
(***************************************************************************)
C8_CycleIsReported ==
    /\ pgResult.op = "validateGraph" /\ PgHasCycle(pg) =>
           /\ ~pgResult.isValid
           /\ \E i \in DOMAIN pgResult.errors :
                  pgResult.errors[i] = "Circular dependency detected"
    /\ pgResult.op = "getTopologicalOrder" =>
           /\ PgHasCycle(pg) => pgResult.threw
           /\ ~pgResult.threw =>
                  {pgResult.order[i] : i \in DOMAIN pgResult.order} = PgIds(pg)

C8_Witness ==
    /\ pgResult.op = "validateGraph"
    /\ {<<1, 2>>, <<2, 1>>} \subseteq PgEdges(pg)
    /\ pgResult.errors = <<"Circular dependency detected">>

(***************************************************************************)
(* C9: for an acyclic PipelineGraph, getTopologicalOrder() returns every  *)
(* node exactly once, with the source node of every connection before its *)
(* target node.                                                           *)
(***************************************************************************)
C9_AcyclicOrderIsTopological ==
    pgResult.op = "getTopologicalOrder" /\ ~PgHasCycle(pg) =>
        LET order == pgResult.order
            Pos(id) == CHOOSE i \in DOMAIN order : order[i] = id
        IN /\ ~pgResult.threw
           /\ Len(order) = Len(pg.nodes)
           /\ {order[i] : i \in DOMAIN order} = PgIds(pg)
           /\ \A e \in PgEdges(pg) : Pos(e[1]) < Pos(e[2])

C9_Witness ==
    /\ pgResult.op = "getTopologicalOrder"
    /\ ~pgResult.threw
    /\ PgIds(pg) = {1, 2, 3, 4}
    /\ PgEdges(pg) = {<<1, 2>>, <<1, 3>>, <<2, 4>>, <<3, 4>>}

(***************************************************************************)
(* C10: after any sequence of addNode, removeNode, addConnection,         *)
(* removeConnection and disconnect, every stored connection joins a       *)
(* declared output port of an existing node to a declared input port of   *)
(* an existing node, and the two ports have the same data type.           *)
(***************************************************************************)
C10_ConnectionsWellTyped ==
    \A i \in DOMAIN pg.connections :
        LET conn == pg.connections[i]
            fromNode == PipelineGraph_findNode(pg, conn.fromNodeId)
            toNode == PipelineGraph_findNode(pg, conn.toNodeId)
        IN /\ fromNode # <<>>
           /\ toNode # <<>>
           /\ \E o \in DOMAIN getOutputPorts(Head(fromNode).module) :
              \E p \in DOMAIN getInputPorts(Head(toNode).module) :
                  LET out == getOutputPorts(Head(fromNode).module)[o]
                      in == getInputPorts(Head(toNode).module)[p]
                  IN /\ out.name = conn.fromPort
                     /\ in.name = conn.toPort
                     /\ out.type = in.type

(***************************************************************************)
(* The OpenGL calls the shader managers make on program objects.  A       *)
(* program deleted while it is the one in use is flagged and stays a      *)
(* program object until another program is put in use; a name is free to  *)
(* be handed out again once its object is gone.                           *)
(***************************************************************************)
MaxPrograms == 2

glIsProgram(g, program) == program \in g.programs

glDeleteProgram(g, program) ==
    IF program \notin g.programs
    THEN g
    ELSE IF program = g.current
         THEN [g EXCEPT !.flagged = @ \cup {program}]
         ELSE [g EXCEPT !.programs = @ \ {program}, !.flagged = @ \ {program}]

glUseProgram(g, program) ==
    IF program # 0 /\ program \notin g.programs
    THEN g
    ELSE LET gone == IF g.current # program THEN g.flagged \cap {g.current} ELSE {}
         IN [programs |-> g.programs \ gone, flagged |-> g.flagged \ gone, current |-> program]

\* what glCreateProgram and glLinkProgram can give: 0 for a failure to compile
\* or link, or a name no program object has
glNewPrograms(g, names) == {0} \cup (names \ g.programs)

glLinkProgram(g, program) ==
    IF program = 0 THEN g ELSE [g EXCEPT !.programs = @ \cup {program}]

(***************************************************************************)
(* The legacy ShaderManager (src/src/graphics/ShaderManager.cpp).         *)
(* shaderCache maps cache keys to programs; a key is the text of          *)
(* generateGraphCacheKey kept as its parts, or "__default__".             *)
(***************************************************************************)
MaxCount == 2

MaxFileTime == 2

\* the snippet files under the lygia directory
LygiaFiles == {"generative/snoise.glsl"}

MaxAvailableModules == 2

getRequiredIncludes(module) ==
    IF module = "noise" THEN {"generative/snoise.glsl"} ELSE {}

PipelineGraph_getRequiredLygiaModules(g) ==
    UNION {getRequiredIncludes(g.nodes[i].module) : i \in DOMAIN g.nodes}

generateGraphCacheKey(g) ==
    <<"",
      [i \in DOMAIN g.nodes |-> <<g.nodes[i].id, g.nodes[i].module>>],
      [i \in DOMAIN g.connections |->
          <<g.connections[i].fromNodeId, g.connections[i].toNodeId,
            g.connections[i].fromPort, g.connections[i].toPort>>]>>

DefaultCacheKey == <<"__default__", <<>>, <<>>>>

\* the graphs handed to the manager: a noise node as output, the same
\* without an output node, a math node fed by itself
LsmGraphs ==
    {PipelineGraph_setOutputNode(PipelineGraph_addNode(PipelineGraph_new, "noise"), 1),
     PipelineGraph_addNode(PipelineGraph_new, "noise"),
     PipelineGraph_addConnection(
         PipelineGraph_setOutputNode(PipelineGraph_addNode(PipelineGraph_new, "math"), 1),
         1, "output", 1, "a")}

\* initialize, after createShaderFromSource linked the default shader as
\* program and the directory walk found the snippet files in this order
ShaderManager_initialize(s, program, discovered) ==
    IF program = 0
    THEN s
    ELSE [s EXCEPT !.initialized = TRUE, !.defaultShader = program,
                   !.currentShader = program, !.availableModules = @ \o discovered]

ShaderManager_trackGraphDependencies(s, files, g) ==
    LET modules == PipelineGraph_getRequiredLygiaModules(g) \cap DOMAIN files
    IN [s EXCEPT !.fileTimestamps =
           [m \in DOMAIN @ \cup modules |-> IF m \in modules THEN files[m].time ELSE @[m]]]

\* generateShaderFromGraph, where program is what compiling and linking the
\* generated source gives; the result is the manager and the
\* CompilationResult returned
ShaderManager_generateShaderFromGraph_NoStore(s, files, g, program) ==
    [sm |-> [s EXCEPT !.compilationCount = @ + 1],
     success |-> program # 0, program |-> program, hit |-> FALSE]

ShaderManager_generateShaderFromGraph(s, files, g, program) ==
    LET cacheKey == generateGraphCacheKey(g)
        loaded == [s EXCEPT !.moduleCache =
                      @ \cup (PipelineGraph_getRequiredLygiaModules(g) \cap DOMAIN files)]
        threw == \E queue \in Kahn_queues(g) : PipelineGraph_getTopologicalOrder(g, queue).threw
        stored == [loaded EXCEPT !.shaderCache = MapPut(@, cacheKey, program),
                                 !.programSources = @ \cup {program}]
        tracked == IF s.hotReloadEnabled
                   THEN ShaderManager_trackGraphDependencies(stored, files, g)
                   ELSE stored
    IN IF cacheKey \in DOMAIN s.shaderCache
       THEN [sm |-> [s EXCEPT !.cacheHits = @ + 1],
             success |-> TRUE, program |-> s.shaderCache[cacheKey], hit |-> TRUE]
       ELSE IF threw
       THEN [sm |-> loaded, success |-> FALSE, program |-> 0, hit |-> FALSE]
       ELSE IF program = 0
       THEN [sm |-> [loaded EXCEPT !.compilationCount = @ + 1],
             success |-> FALSE, program |-> 0, hit |-> FALSE]
       ELSE [sm |-> [tracked EXCEPT !.compilationCount = @ + 1],
             success |-> TRUE, program |-> program, hit |-> FALSE]

\* Node::getName
PipelineGraph_Node_getName(node) == [prefix |-> "node_", id |-> node.id]

PipelineGraph_getOutputNodes(g) ==
    IF g.outputNodeId # -1 THEN PipelineGraph_findNode(g, g.outputNodeId) ELSE <<>>

\* generateFragmentShaderFromGraph, the parts of the text that depend on the
\* graph: the snippets included, the node functions, declarations and calls
\* in topological order, and the right-hand side of FragColor
generateFragmentShaderFromGraph(g, files, queue) ==
    LET sorted == PipelineGraph_getTopologicalOrder(g, queue)
        outputNodes == PipelineGraph_getOutputNodes(g)
    IN IF sorted.threw
       THEN [threw |-> TRUE, modules |-> {}, functions |-> <<>>,
             FragColor |-> [name |-> [prefix |-> "", id |-> 0], text |-> ""]]
       ELSE [threw |-> FALSE,
             modules |-> PipelineGraph_getRequiredLygiaModules(g) \cap DOMAIN files,
             functions |-> [i \in DOMAIN sorted.order |->
                               LET node == Head(PipelineGraph_findNode(g, sorted.order[i]))
                               IN [name |-> PipelineGraph_Node_getName(node),
                                   module |-> node.module]],
             FragColor |-> IF outputNodes # <<>>
                           THEN [name |-> PipelineGraph_Node_getName(outputNodes[1]),
                                 text |-> "_output"]
                           ELSE [name |-> [prefix |-> "", id |-> 0],
                                 text |-> "vec4(uv, 0.5, 1.0)"]]

\* the fragment sources generateShaderFromGraph can hand to the compiler
LsmSources(g, files) ==
    {generateFragmentShaderFromGraph(g, files, queue) : queue \in Kahn_queues(g)}

\* deleteShader: erased is the cache entry the loop finds first, if any
ShaderManager_deleteShader_NoDefaultGuard(s, g, program, erased) ==
    IF program = 0
    THEN [sm |-> s, gl |-> g]
    ELSE [sm |-> [s EXCEPT !.shaderCache = [k \in DOMAIN @ \ erased |-> @[k]],
                           !.programSources = @ \ {program}],
          gl |-> glDeleteProgram(g, program)]

ShaderManager_deleteShader(s, g, program, erased) ==
    IF program = 0
    THEN [sm |-> s, gl |-> g]
    ELSE [sm |-> [s EXCEPT !.shaderCache = [k \in DOMAIN @ \ erased |-> @[k]],
                           !.programSources = @ \ {program}],
          gl |-> IF program # s.defaultShader THEN glDeleteProgram(g, program) ELSE g]

RECURSIVE glDeleteEach(_, _)
glDeleteEach(g, programs) ==
    IF programs = {}
    THEN g
    ELSE LET program == CHOOSE x \in programs : TRUE
         IN glDeleteEach(glDeleteProgram(g, program), programs \ {program})

ShaderManager_clearCaches(s, g) ==
    LET deleted == {s.shaderCache[k] : k \in DOMAIN s.shaderCache}
                       \ {s.currentShader, s.defaultShader}
    IN [sm |-> [s EXCEPT !.shaderCache = IF s.defaultShader # 0
                                         THEN MapPut(EmptyMap, DefaultCacheKey, s.defaultShader)
                                         ELSE EmptyMap,
                         !.moduleCache = {},
                         !.programSources = {}],
        gl |-> glDeleteEach(g, deleted)]

ShaderManager_cleanup(s, g) ==
    LET cached == {s.shaderCache[k] : k \in DOMAIN s.shaderCache}
    IN [sm |-> [s EXCEPT !.initialized = FALSE, !.shaderCache = EmptyMap,
                         !.defaultShader = 0, !.moduleCache = {},
                         !.programSources = {}, !.fileTimestamps = EmptyMap],
        gl |-> glDeleteEach(g, cached \cup ({s.defaultShader} \ {0}))]

\* how many times cleanup hands each program to glDeleteProgram: once per
\* shaderCache entry holding it, and once more for the default shader
ShaderManager_cleanup_deleteCalls(s) ==
    [program \in 1..MaxPrograms |->
        Cardinality({k \in DOMAIN s.shaderCache : s.shaderCache[k] = program})
            + (IF s.defaultShader = program THEN 1 ELSE 0)]

ShaderManager_enableHotReload(s, enable) ==
    IF enable
    THEN [s EXCEPT !.hotReloadEnabled = TRUE]
    ELSE [s EXCEPT !.hotReloadEnabled = FALSE, !.fileTimestamps = EmptyMap]

\* checkForChanges: the loop over availableModules, from the manager and the
\* callbacks made so far
RECURSIVE ShaderManager_checkForChanges(_, _, _, _)
ShaderManager_checkForChanges(s, files, modules, callbacks) ==
    IF ~s.hotReloadEnabled \/ modules = <<>>
    THEN [sm |-> s, callbacks |-> callbacks]
    ELSE LET module == Head(modules)
             currentTime == files[module].time
             modified == IF module \in DOMAIN s.fileTimestamps
                         THEN s.fileTimestamps[module] # currentTime
                         ELSE FALSE
             reloaded == IF modified
                         THEN [s EXCEPT !.moduleCache = @ \ {module}, !.hotReloads = @ + 1]
                         ELSE s
         IN IF module \notin DOMAIN files
            THEN ShaderManager_checkForChanges(s, files, Tail(modules), callbacks)
            ELSE ShaderManager_checkForChanges(
                     [reloaded EXCEPT !.fileTimestamps = MapPut(@, module, currentTime)],
                     files, Tail(modules),
                     IF modified /\ s.reloadCallback
                     THEN Append(callbacks, module) ELSE callbacks)


(***************************************************************************)
(* Specification of a legacy ShaderManager driven by arbitrary calls,     *)
(* with the snippet files modified on disk between the calls.  smLast     *)
(* records the last call and what it observed; fsFiles holds, per file,   *)
(* its write time, whether a checkForChanges has looked at it since it    *)
(* became tracked (seen), and whether it was modified since the last      *)
(* such look (pending).                                                   *)
(***************************************************************************)
NotSm == <<ngVars, oscVars, svVars, erVars, osVars, pgVars, esVars, piVars, ciVars, lpVars, mfVars, srVars, prVars, idVars, etVars>>

SmForget(files) == [m \in DOMAIN files |-> [files[m] EXCEPT !.pending = FALSE, !.seen = FALSE]]

LsmInitialize ==
    \E program \in glNewPrograms(gl, 1..MaxPrograms) :
        \E discovered \in {<<m>> : m \in LygiaFiles} :
            /\ Len(sm.availableModules) + Len(discovered) <= MaxAvailableModules
            /\ gl' = glLinkProgram(gl, program)
            /\ sm' = ShaderManager_initialize(sm, program, discovered)
            /\ smLast' = [op |-> "initialize", ret |-> program # 0]
            /\ UNCHANGED <<fsFiles, NotSm>>

LsmGenerateShaderFromGraph ==
    \E g \in LsmGraphs :
        \E program \in glNewPrograms(gl, 1..MaxPrograms) :
            LET r == ShaderManager_generateShaderFromGraph(sm, fsFiles, g, program)
                compiled == r.success /\ ~r.hit
                again == IF smLast.op = "generateShaderFromGraph"
                         THEN smLast.key = generateGraphCacheKey(g)
                         ELSE FALSE
            IN /\ r.sm.cacheHits <= MaxCount
               /\ r.sm.compilationCount <= MaxCount
               /\ program # 0 => compiled
               /\ sm' = r.sm
               /\ gl' = IF compiled THEN glLinkProgram(gl, program) ELSE gl
               /\ smLast' = [op |-> "generateShaderFromGraph",
                             key |-> generateGraphCacheKey(g),
                             success |-> r.success, program |-> r.program,
                             again |-> again,
                             firstSuccess |-> IF again THEN smLast.success ELSE FALSE,
                             sameHandle |-> IF again THEN smLast.program = r.program ELSE FALSE,
                             hits |-> r.sm.cacheHits - sm.cacheHits,
                             source |-> LsmSources(g, fsFiles),
                             prevSource |-> IF again THEN smLast.source ELSE {},
                             afterChange |->
                                 IF smLast.op = "checkForChanges"
                                 THEN smLast.reported
                                          \cap PipelineGraph_getRequiredLygiaModules(g)
                                 ELSE {}]
               /\ UNCHANGED <<fsFiles, NotSm>>

LsmDeleteShader ==
    \E program \in 0..MaxPrograms :
        \E erased \in IF \E k \in DOMAIN sm.shaderCache : sm.shaderCache[k] = program
                      THEN {{k} : k \in {x \in DOMAIN sm.shaderCache : sm.shaderCache[x] = program}}
                      ELSE {{}} :
            LET r == ShaderManager_deleteShader(sm, gl, program, erased)
            IN /\ sm' = r.sm
               /\ gl' = r.gl
               /\ smLast' = [op |-> "deleteShader", program |-> program,
                             defaultShader |-> sm.defaultShader]
               /\ UNCHANGED <<fsFiles, NotSm>>

LsmUseShader ==
    \E program \in 0..MaxPrograms :
        /\ gl' = IF program # sm.currentShader THEN glUseProgram(gl, program) ELSE gl
        /\ sm' = [sm EXCEPT !.currentShader = program]
        /\ smLast' = [op |-> "useShader"]
        /\ UNCHANGED <<fsFiles, NotSm>>

LsmClearCaches ==
    LET r == ShaderManager_clearCaches(sm, gl)
    IN /\ sm' = r.sm
       /\ gl' = r.gl
       /\ smLast' = [op |-> "clearCaches", defaultShader |-> sm.defaultShader]
       /\ UNCHANGED <<fsFiles, NotSm>>

LsmCleanup ==
    LET r == ShaderManager_cleanup(sm, gl)
    IN /\ sm' = r.sm
       /\ gl' = r.gl
       /\ fsFiles' = SmForget(fsFiles)
       /\ smLast' = [op |-> "cleanup", live |-> gl.programs,
                     deleteCalls |-> ShaderManager_cleanup_deleteCalls(sm)]
       /\ UNCHANGED NotSm

LsmEnableHotReload ==
    \E enable \in BOOLEAN :
        /\ sm' = ShaderManager_enableHotReload(sm, enable)
        /\ fsFiles' = IF enable THEN fsFiles ELSE SmForget(fsFiles)
        /\ smLast' = [op |-> "enableHotReload"]
        /\ UNCHANGED <<gl, NotSm>>

LsmSetReloadCallback ==
    /\ sm' = [sm EXCEPT !.reloadCallback = TRUE]
    /\ smLast' = [op |-> "setReloadCallback"]
    /\ UNCHANGED <<gl, fsFiles, NotSm>>

LsmCheckForChanges ==
    LET r == ShaderManager_checkForChanges(sm, fsFiles, sm.availableModules, <<>>)
        looked == IF sm.hotReloadEnabled
                  THEN {sm.availableModules[i] : i \in DOMAIN sm.availableModules}
                  ELSE {}
    IN /\ r.sm.hotReloads <= MaxCount
       /\ sm' = r.sm
       /\ fsFiles' = [m \in DOMAIN fsFiles |->
                         IF m \in looked
                         THEN [fsFiles[m] EXCEPT !.pending = FALSE, !.seen = TRUE]
                         ELSE fsFiles[m]]
       /\ smLast' = [op |-> "checkForChanges",
                     enabled |-> sm.hotReloadEnabled,
                     reported |-> {m \in looked \cap DOMAIN fsFiles \cap DOMAIN sm.fileTimestamps :
                                      sm.fileTimestamps[m] # fsFiles[m].time},
                     pending |-> {m \in DOMAIN fsFiles : fsFiles[m].pending},
                     callbacks |-> r.callbacks,
                     hadCallback |-> sm.reloadCallback,
                     hotReloads |-> r.sm.hotReloads - sm.hotReloads,
                     changed |-> r.sm # sm]
       /\ UNCHANGED <<gl, NotSm>>

\* a snippet file is written on disk
FsModify ==
    \E m \in DOMAIN fsFiles :
        /\ fsFiles[m].time < MaxFileTime
        /\ fsFiles' = [fsFiles EXCEPT ![m] =
               [time |-> @.time + 1,
                seen |-> @.seen,
                pending |-> \/ @.pending
                            \/ /\ sm.hotReloadEnabled
                               /\ m \in DOMAIN sm.fileTimestamps
                               /\ @.seen]]
        /\ UNCHANGED <<gl, sm, smLast, NotSm>>

InitLegacyShaderManager ==
    /\ gl = GL_new
    /\ sm = ShaderManager_new
    /\ fsFiles = [m \in LygiaFiles |-> [time |-> 0, seen |-> FALSE, pending |-> FALSE]]
    /\ smLast = [op |-> "none"]
    /\ NGIdle /\ OscIdle /\ SvIdle /\ ErIdle /\ OsIdle /\ PgIdle /\ EsIdle /\ PiIdle /\ CiIdle /\ LpIdle /\ MfIdle /\ SrIdle /\ PrIdle /\ IdIdle /\ EtIdle

NextLegacyShaderManager ==
    \/ LsmInitialize
    \/ LsmGenerateShaderFromGraph
    \/ LsmDeleteShader
    \/ LsmUseShader
    \/ LsmClearCaches
    \/ LsmCleanup

SpecLegacyShaderManager == InitLegacyShaderManager /\ [][NextLegacyShaderManager]_vars

(***************************************************************************)
(* Specification of the hot reload of the legacy ShaderManager: the       *)
(* calls that read or write the recorded file times, and the files being  *)
(* written on disk.                                                       *)
(***************************************************************************)
NextHotReload ==
    \/ LsmInitialize
    \/ LsmGenerateShaderFromGraph
    \/ LsmClearCaches
    \/ LsmEnableHotReload
    \/ LsmSetReloadCallback
    \/ LsmCheckForChanges
    \/ FsModify

SpecHotReload == InitLegacyShaderManager /\ [][NextHotReload]_vars

\* the connections of g into input port toPort of node toNodeId
PgIncoming(g, toNodeId, toPort) ==
    {i \in DOMAIN g.connections :
        g.connections[i].toNodeId = toNodeId /\ g.connections[i].toPort = toPort}

PgOnePerInput ==
    \A i, j \in DOMAIN pg.connections :
        (/\ pg.connections[i].toNodeId = pg.connections[j].toNodeId
         /\ pg.connections[i].toPort = pg.connections[j].toPort) => i = j

\* after an addConnection that returned true, the target port holds the
\* requested connection and no other
PgOnlyTheNewConnection ==
    /\ Cardinality(PgIncoming(pg, pgResult.toNodeId, pgResult.toPort)) = 1
    /\ \A i \in PgIncoming(pg, pgResult.toNodeId, pgResult.toPort) :
           /\ pg.connections[i].fromNodeId = pgResult.fromNodeId
           /\ pg.connections[i].fromPort = pgResult.fromPort

(***************************************************************************)
(* C11 as stated: at most one connection targets any (node, input port)   *)
(* pair, and every addConnection into an input port that already has an   *)
(* incoming connection returns true and leaves only the new connection on *)
(* that port.  An addConnection whose source node or source port does not *)
(* exist returns false and leaves the old connection in place.            *)
(***************************************************************************)
C11_EveryReplacingAddSucceeds ==
    /\ PgOnePerInput
    /\ (pgResult.op = "addConnection" /\ pgResult.hadIncoming) =>
           pgResult.ret /\ PgOnlyTheNewConnection

(***************************************************************************)
(* C11, amended: at most one connection targets any (node, input port)    *)
(* pair at any time; an addConnection into an input port that already has *)
(* an incoming connection, from an existing node's declared output port,  *)
(* returns true; and an addConnection that returns true leaves only the   *)
(* new connection on its target port.                                     *)
(***************************************************************************)
C11_OneConnectionPerInput ==
    /\ PgOnePerInput
    /\ pgResult.op = "addConnection" =>
           /\ (pgResult.hadIncoming /\ pgResult.sourceExists) => pgResult.ret
           /\ pgResult.ret => PgOnlyTheNewConnection

C11_Witness ==
    /\ pgResult.op = "addConnection"
    /\ pgResult.hadIncoming
    /\ pgResult.ret
    /\ Len(pg.connections) >= 2
    /\ pgResult.fromNodeId # pgResult.toNodeId

(***************************************************************************)
(* C12 as stated: after removeNode(id) no connection has id as its source *)
(* or target node, and if the output designation was id it has been       *)
(* cleared.  setOutputNode accepts an id no node has; removeNode of that   *)
(* id returns false and leaves the designation on it.                     *)
(***************************************************************************)
C12_RemoveNodeClearsEveryReference ==
    pgResult.op = "removeNode" =>
        /\ \A i \in DOMAIN pg.connections :
               /\ pg.connections[i].fromNodeId # pgResult.nodeId
               /\ pg.connections[i].toNodeId # pgResult.nodeId
        /\ pgResult.wasOutput => pg.outputNodeId = -1

(***************************************************************************)
(* C12, amended: after removeNode(id) no node and no connection of the    *)
(* graph has the id; if a node with the id existed (removeNode returned   *)
(* true) and was the designated output node, the output designation is    *)
(* cleared; if no node had the id (removeNode returned false) the output  *)
(* designation is left as it was.                                         *)
(***************************************************************************)
C12_RemoveNodeLeavesNoReference ==
    pgResult.op = "removeNode" =>
        /\ PipelineGraph_findNode(pg, pgResult.nodeId) = <<>>
        /\ \A i \in DOMAIN pg.connections :
               /\ pg.connections[i].fromNodeId # pgResult.nodeId
               /\ pg.connections[i].toNodeId # pgResult.nodeId
        /\ (pgResult.ret /\ pgResult.wasOutput) => pg.outputNodeId = -1
        /\ pgResult.ret => pg.outputNodeId # pgResult.nodeId
        /\ ~pgResult.ret => (pgResult.wasOutput <=> pg.outputNodeId = pgResult.nodeId)

C12_Witness ==
    /\ pgResult.op = "removeNode"
    /\ pgResult.ret
    /\ pgResult.wasOutput
    /\ pgResult.hadConnections
    /\ pg.outputNodeId = -1
    /\ pg.connections # <<>>

\* the ids of the nodes of g from which nodeId can be reached along
\* connections, with nodeId itself
PgUpstream(g, nodeId) ==
    {nodeId} \cup {id \in PgIds(g) : nodeId \in PgReach(PgEdges(g), {id}, Len(g.nodes))}

(***************************************************************************)
(* C13: for a node n of the graph, extractSubgraphTo(n) returns a graph   *)
(* whose nodes are one copy each of n and of the nodes from which n can   *)
(* be reached along connections, under fresh ids, and no other node;      *)
(* whose connections are exactly the original connections between those   *)
(* nodes, with the ids re-mapped; and whose output node is the copy of n. *)
(***************************************************************************)
C13_SubgraphIsUpstreamClosure ==
    (/\ pgResult.op = "extractSubgraphTo"
     /\ PipelineGraph_findNode(pg, pgResult.nodeId) # <<>>) =>
        LET sub == pgResult.subGraph
            up == PgUpstream(pg, pgResult.nodeId)
            Remap(f, conn) == [conn EXCEPT !.fromNodeId = f[@], !.toNodeId = f[@]]
            Inside(conn) == conn.fromNodeId \in up /\ conn.toNodeId \in up
            inside == SelectSeq(pg.connections, Inside)
        IN /\ Len(sub.nodes) = Cardinality(up)
           /\ \E f \in [up -> PgIds(sub)] :
               /\ \A a, b \in up : f[a] = f[b] => a = b
               /\ \A id \in up :
                      Head(PipelineGraph_findNode(sub, f[id])).module
                          = Head(PipelineGraph_findNode(pg, id)).module
               /\ sub.outputNodeId = f[pgResult.nodeId]
               /\ Len(sub.connections) = Len(inside)
               /\ {sub.connections[i] : i \in DOMAIN sub.connections}
                      = {Remap(f, inside[i]) : i \in DOMAIN inside}

C13_Witness ==
    /\ pgResult.op = "extractSubgraphTo"
    /\ pgResult.nodeId = 3
    /\ PgIds(pg) = {1, 2, 3, 4}
    /\ PgEdges(pg) = {<<1, 2>>, <<2, 3>>, <<1, 3>>, <<3, 4>>}
    /\ Len(pgResult.subGraph.nodes) = 3
    /\ Len(pgResult.subGraph.connections) = 3

(***************************************************************************)
(* The engine-service ShaderManager and Pipeline                          *)
(* (src/src/graphics_engine/ShaderManager.cpp, Pipeline.cpp).             *)
(* active_programs is the vector active_programs_; program stands for    *)
(* what compiling and linking gives.                                      *)
(***************************************************************************)
MaxEnginePrograms == 3

MaxActivePrograms == 3

SeqRange(q) == {q[i] : i \in DOMAIN q}

\* the position std::find gives, 0 for end()
SeqFind(q, x) ==
    IF x \in SeqRange(q) THEN CHOOSE i \in DOMAIN q : q[i] = x /\ \A j \in 1..(i - 1) : q[j] # x ELSE 0

SeqErase(q, i) == [j \in 1..(Len(q) - 1) |-> IF j < i THEN q[j] ELSE q[j + 1]]

gfx_ShaderManager_initialize(s) == [s EXCEPT !.initialized = TRUE]

gfx_ShaderManager_compileFromSource(s, g, program) ==
    [es |-> IF program # 0 THEN [s EXCEPT !.active_programs = Append(@, program)] ELSE s,
     gl |-> glLinkProgram(g, program),
     ret |-> program]

gfx_ShaderManager_compileFromPipeline(s, g, program) ==
    IF ~s.initialized
    THEN [es |-> s, gl |-> g, ret |-> 0]
    ELSE gfx_ShaderManager_compileFromSource(s, g, program)

gfx_ShaderManager_hotReload(s, g, programId, program) ==
    IF ~s.initialized \/ ~glIsProgram(g, programId)
    THEN [es |-> s, gl |-> g, ret |-> FALSE]
    ELSE LET c == gfx_ShaderManager_compileFromPipeline(s, g, program)
             it == SeqFind(c.es.active_programs, programId)
             deleted == glDeleteProgram(c.gl, programId)
             replaced == [c.es EXCEPT !.active_programs[it] = c.ret]
         IN IF c.ret = 0
            THEN [es |-> c.es, gl |-> c.gl, ret |-> FALSE]
            ELSE IF it # 0
            THEN IF s.current_program = programId
                 THEN [es |-> [replaced EXCEPT !.current_program = c.ret],
                       gl |-> glUseProgram(deleted, c.ret), ret |-> TRUE]
                 ELSE [es |-> replaced, gl |-> deleted, ret |-> TRUE]
            ELSE [es |-> c.es, gl |-> c.gl, ret |-> FALSE]

gfx_ShaderManager_deleteProgram(s, g, programId) ==
    IF glIsProgram(g, programId)
    THEN LET it == SeqFind(s.active_programs, programId)
         IN [es |-> [s EXCEPT !.active_programs = IF it # 0 THEN SeqErase(@, it) ELSE @,
                              !.current_program = IF @ = programId THEN 0 ELSE @],
             gl |-> glDeleteProgram(g, programId)]
    ELSE [es |-> s, gl |-> g]

gfx_ShaderManager_useProgram(s, g, programId) ==
    IF glIsProgram(g, programId)
    THEN [es |-> [s EXCEPT !.current_program = programId], gl |-> glUseProgram(g, programId)]
    ELSE [es |-> s, gl |-> g]

\* the loop of shutdown over active_programs_
RECURSIVE gfx_ShaderManager_shutdown_loop(_, _)
gfx_ShaderManager_shutdown_loop(g, programs) ==
    IF programs = <<>>
    THEN g
    ELSE gfx_ShaderManager_shutdown_loop(
             IF glIsProgram(g, Head(programs)) THEN glDeleteProgram(g, Head(programs)) ELSE g,
             Tail(programs))

gfx_ShaderManager_shutdown(s, g) ==
    [es |-> [initialized |-> FALSE, current_program |-> 0, active_programs |-> <<>>],
     gl |-> gfx_ShaderManager_shutdown_loop(g, s.active_programs)]

\* Pipeline::generateShader, the Pipeline holding the manager
gfx_Pipeline_generateShader_DeleteFirst(p, s, g, program) ==
    LET d == IF p.shader_program # 0
             THEN gfx_ShaderManager_deleteProgram(s, g, p.shader_program)
             ELSE [es |-> s, gl |-> g]
        c == gfx_ShaderManager_compileFromPipeline(d.es, d.gl, program)
    IN [pl |-> IF c.ret = 0 THEN p ELSE [p EXCEPT !.shader_program = c.ret],
        es |-> c.es, gl |-> c.gl, ret |-> c.ret # 0]

gfx_Pipeline_generateShader(p, s, g, program) ==
    LET c == gfx_ShaderManager_compileFromPipeline(s, g, program)
        d == IF p.shader_program # 0
             THEN gfx_ShaderManager_deleteProgram(c.es, c.gl, p.shader_program)
             ELSE [es |-> c.es, gl |-> c.gl]
    IN IF ~p.shader_manager
       THEN [pl |-> p, es |-> s, gl |-> g, ret |-> FALSE]
       ELSE IF c.ret = 0
       THEN [pl |-> p, es |-> c.es, gl |-> c.gl, ret |-> FALSE]
       ELSE [pl |-> [p EXCEPT !.shader_program = c.ret], es |-> d.es, gl |-> d.gl, ret |-> TRUE]

gfx_Pipeline_isReady(p) == p.initialized /\ p.shader_program # 0

\* program is neither deleted nor flagged for deletion
GlUndeleted(g, program) == program \in g.programs \ g.flagged

(***************************************************************************)
(* Specification of the engine-service ShaderManager and a Pipeline that  *)
(* shares it, driven by arbitrary calls.  esLast records the last call    *)
(* and what it observed.                                                  *)
(***************************************************************************)
NotEs ==
    <<ngVars, oscVars, svVars, erVars, osVars, pgVars, sm, fsFiles, smLast, piVars, ciVars, lpVars,
      mfVars, srVars, prVars, idVars, etVars>>

EsInitialize ==
    /\ es' = gfx_ShaderManager_initialize(es)
    /\ esLast' = [op |-> "initialize"]
    /\ UNCHANGED <<gl, pl, NotEs>>

EsShutdown ==
    LET r == gfx_ShaderManager_shutdown(es, gl)
    IN /\ es' = r.es
       /\ gl' = r.gl
       /\ esLast' = [op |-> "shutdown"]
       /\ UNCHANGED <<pl, NotEs>>

EsCompileFromPipeline ==
    \E program \in glNewPrograms(gl, 1..MaxEnginePrograms) :
        LET r == gfx_ShaderManager_compileFromPipeline(es, gl, program)
        IN /\ Len(r.es.active_programs) <= MaxActivePrograms
           /\ program # 0 => r.ret # 0
           /\ es' = r.es
           /\ gl' = r.gl
           /\ esLast' = [op |-> "compileFromPipeline", ret |-> r.ret]
           /\ UNCHANGED <<pl, NotEs>>

EsHotReload ==
    \E programId \in 1..MaxEnginePrograms :
        \E program \in glNewPrograms(gl, 1..MaxEnginePrograms) :
            LET r == gfx_ShaderManager_hotReload(es, gl, programId, program)
            IN /\ Len(r.es.active_programs) <= MaxActivePrograms
               /\ program # 0 => glIsProgram(r.gl, program)
               /\ es' = r.es
               /\ gl' = r.gl
               /\ esLast' = [op |-> "hotReload", ret |-> r.ret,
                             deletedOld |-> GlUndeleted(gl, programId) /\ ~GlUndeleted(r.gl, programId),
                             wasCurrent |-> es.current_program = programId,
                             isCurrent |-> r.es.current_program = programId /\ r.gl.current = gl.current,
                             sameTracked |-> SeqRange(r.es.active_programs) = SeqRange(es.active_programs)]
               /\ UNCHANGED <<pl, NotEs>>

EsDeleteProgram ==
    \E programId \in 1..MaxEnginePrograms :
        LET r == gfx_ShaderManager_deleteProgram(es, gl, programId)
        IN /\ es' = r.es
           /\ gl' = r.gl
           /\ esLast' = [op |-> "deleteProgram"]
           /\ UNCHANGED <<pl, NotEs>>

EsUseProgram ==
    \E programId \in 1..MaxEnginePrograms :
        LET r == gfx_ShaderManager_useProgram(es, gl, programId)
        IN /\ es' = r.es
           /\ gl' = r.gl
           /\ esLast' = [op |-> "useProgram"]
           /\ UNCHANGED <<pl, NotEs>>

PlInitialize ==
    \E program \in glNewPrograms(gl, 1..MaxEnginePrograms) :
        LET held == [pl EXCEPT !.shader_manager = TRUE]
            r == gfx_Pipeline_generateShader(held, es, gl, program)
        IN /\ ~pl.initialized
           /\ es.initialized
           /\ Len(r.es.active_programs) <= MaxActivePrograms
           /\ program # 0 => r.ret
           /\ pl' = [r.pl EXCEPT !.initialized = TRUE]
           /\ es' = r.es
           /\ gl' = r.gl
           /\ esLast' = [op |-> "Pipeline::initialize"]
           /\ UNCHANGED NotEs

PlUpdateFromNodeGraph ==
    \E program \in glNewPrograms(gl, 1..MaxEnginePrograms) :
        LET r == gfx_Pipeline_generateShader(pl, es, gl, program)
        IN /\ pl.initialized
           /\ Len(r.es.active_programs) <= MaxActivePrograms
           /\ program # 0 => r.ret
           /\ pl' = r.pl
           /\ es' = r.es
           /\ gl' = r.gl
           /\ esLast' = [op |-> "updateFromNodeGraph", ret |-> r.ret,
                         before |-> pl.shader_program,
                         deletedOld |-> /\ GlUndeleted(gl, pl.shader_program)
                                        /\ ~GlUndeleted(r.gl, pl.shader_program)]
           /\ UNCHANGED NotEs

PlRender ==
    LET r == gfx_ShaderManager_useProgram(es, gl, pl.shader_program)
    IN /\ gfx_Pipeline_isReady(pl)
       /\ es' = r.es
       /\ gl' = r.gl
       /\ esLast' = [op |-> "render",
                     afterFailedUpdate |-> IF esLast.op = "updateFromNodeGraph"
                                           THEN ~esLast.ret ELSE FALSE,
                     before |-> IF esLast.op = "updateFromNodeGraph" THEN esLast.before ELSE 0]
       /\ UNCHANGED <<pl, NotEs>>

PlShutdown ==
    LET r == IF pl.shader_program # 0
             THEN gfx_ShaderManager_deleteProgram(es, gl, pl.shader_program)
             ELSE [es |-> es, gl |-> gl]
    IN /\ es' = r.es
       /\ gl' = r.gl
       /\ pl' = gfx_Pipeline_new
       /\ esLast' = [op |-> "Pipeline::shutdown"]
       /\ UNCHANGED NotEs

InitEngineShaders ==
    EsIdle /\ SmIdle /\ NGIdle /\ OscIdle /\ SvIdle /\ ErIdle /\ OsIdle /\ PgIdle /\ PiIdle /\ CiIdle /\ LpIdle /\ MfIdle /\ SrIdle /\ PrIdle /\ IdIdle /\ EtIdle

NextEngineShaders ==
    \/ EsInitialize
    \/ EsShutdown
    \/ EsCompileFromPipeline
    \/ EsHotReload
    \/ EsDeleteProgram
    \/ EsUseProgram
    \/ PlInitialize
    \/ PlUpdateFromNodeGraph
    \/ PlRender
    \/ PlShutdown

SpecEngineShaders == InitEngineShaders /\ [][NextEngineShaders]_vars

(***************************************************************************)
(* ShaderManager::processIncludes of the legacy ShaderManager             *)
(* (src/src/graphics/ShaderManager.cpp).  A source is a sequence of       *)
(* pieces: plain text, or an #include directive of a path.  piStack holds *)
(* the calls of processIncludes in progress, the outermost first: each    *)
(* has the part of its result already free of directives (done) and the   *)
(* part still to search (rest).                                           *)
(***************************************************************************)
MaxIncludeDepth == 12

MaxPieces == 2

IncludeFiles == {"a.glsl", "b.glsl"}

PiText == [kind |-> "text", path |-> ""]

PiDirective(path) == [kind |-> "include", path |-> path]

\* "// Include not found: " + includePath, which the regex does not match
PiNotFound(path) == [kind |-> "text", path |-> path]

PiPieces == {PiText} \cup {PiDirective(path) : path \in IncludeFiles \cup {"missing.glsl"}}

PiContents == UNION {[1..n -> PiPieces] : n \in 0..MaxPieces}

\* the sources processIncludes is called on from outside
PiSources ==
    {<<PiDirective("a.glsl")>>,
     <<PiText, PiDirective("missing.glsl")>>,
     <<PiDirective("b.glsl"), PiText>>}

\* loadFile: the content, empty for a file that cannot be opened
loadFile(files, path) == IF path \in DOMAIN files THEN files[path] ELSE <<>>

NotPi == <<ngVars, oscVars, svVars, erVars, osVars, pgVars, smVars, esVars, ciVars, lpVars, mfVars, srVars, prVars, idVars, etVars>>

\* processIncludes is called on a source
PiCall ==
    \E source \in PiSources :
        /\ piStack = <<>>
        /\ piStack' = <<[done |-> <<>>, rest |-> source]>>
        /\ piResult' = [done |-> FALSE, overflow |-> FALSE, text |-> <<>>]
        /\ UNCHANGED <<piFiles, NotPi>>

\* regex_search passes over text that holds no directive
PiSkipText ==
    /\ piStack # <<>>
    /\ piStack[Len(piStack)].rest # <<>>
    /\ Head(piStack[Len(piStack)].rest).kind = "text"
    /\ piStack' = [piStack EXCEPT ![Len(piStack)] =
           [done |-> Append(@.done, Head(@.rest)), rest |-> Tail(@.rest)]]
    /\ UNCHANGED <<piFiles, piResult, NotPi>>

\* regex_search finds a directive: its content is loaded and processIncludes
\* is called on it
PiRecurse ==
    /\ piStack # <<>>
    /\ Len(piStack) < MaxIncludeDepth
    /\ piStack[Len(piStack)].rest # <<>>
    /\ Head(piStack[Len(piStack)].rest).kind = "include"
    /\ LET includePath == Head(piStack[Len(piStack)].rest).path
           loaded == loadFile(piFiles, includePath)
           includeContent == IF loaded = <<>> THEN <<PiNotFound(includePath)>> ELSE loaded
       IN piStack' = Append(piStack, [done |-> <<>>, rest |-> includeContent])
    /\ UNCHANGED <<piFiles, piResult, NotPi>>

\* regex_search finds nothing more: the call returns its result, which
\* replaces the directive in the caller's result
PiReturn ==
    /\ piStack # <<>>
    /\ piStack[Len(piStack)].rest = <<>>
    /\ IF Len(piStack) = 1
       THEN /\ piStack' = <<>>
            /\ piResult' = [done |-> TRUE, overflow |-> FALSE, text |-> piStack[1].done]
       ELSE /\ piStack' = [SubSeq(piStack, 1, Len(piStack) - 1) EXCEPT ![Len(piStack) - 1] =
                   [done |-> @.done \o piStack[Len(piStack)].done, rest |-> Tail(@.rest)]]
            /\ UNCHANGED piResult
    /\ UNCHANGED <<piFiles, NotPi>>

\* the nested call that no longer fits the call stack: the process dies in
\* it, MaxIncludeDepth standing for the depth the stack affords
PiStackOverflow ==
    /\ piStack # <<>>
    /\ Len(piStack) = MaxIncludeDepth
    /\ piStack[Len(piStack)].rest # <<>>
    /\ Head(piStack[Len(piStack)].rest).kind = "include"
    /\ piStack' = <<>>
    /\ piResult' = [done |-> FALSE, overflow |-> TRUE, text |-> <<>>]
    /\ UNCHANGED <<piFiles, NotPi>>

InitProcessIncludes ==
    /\ piFiles \in [IncludeFiles -> PiContents]
    /\ piStack = <<>>
    /\ piResult = [done |-> FALSE, overflow |-> FALSE, text |-> <<>>]
    /\ NGIdle /\ OscIdle /\ SvIdle /\ ErIdle /\ OsIdle /\ PgIdle /\ SmIdle /\ EsIdle /\ CiIdle /\ LpIdle /\ MfIdle /\ SrIdle /\ PrIdle /\ IdIdle /\ EtIdle

NextProcessIncludes ==
    \/ PiCall
    \/ PiSkipText
    \/ PiRecurse
    \/ PiReturn
    \/ PiStackOverflow

SpecProcessIncludes == InitProcessIncludes /\ [][NextProcessIncludes]_vars

C19_DefaultShaderNeverDeleted ==
    /\ sm.defaultShader # 0 =>
           (glIsProgram(gl, sm.defaultShader) /\ sm.defaultShader \notin gl.flagged)
    /\ (smLast.op \in {"deleteShader", "clearCaches"} /\ smLast.defaultShader # 0)
           => sm.defaultShader = smLast.defaultShader

C19_Witness ==
    /\ smLast.op = "deleteShader"
    /\ smLast.program # 0
    /\ smLast.program = sm.defaultShader
    /\ glIsProgram(gl, sm.defaultShader)
    /\ gl.current = sm.defaultShader

\* how many of the callbacks made were for module
CallbackCount(callbacks, module) ==
    Cardinality({i \in DOMAIN callbacks : callbacks[i] = module})

(***************************************************************************)
(* C18: a checkForChanges() with hot reload enabled reports every tracked *)
(* snippet file modified since the checkForChanges() before it, once: the *)
(* snippet is out of the snippet cache, the hot-reload counter grew by    *)
(* one for it and the callback, if set, was invoked once with its path;   *)
(* with hot reload disabled the call changes nothing.                     *)
(***************************************************************************)
C18_EveryModificationReportedOnce ==
    smLast.op = "checkForChanges" =>
        IF smLast.enabled
        THEN /\ \A m \in smLast.pending :
                    /\ m \notin sm.moduleCache
                    /\ smLast.hadCallback => CallbackCount(smLast.callbacks, m) = 1
             /\ smLast.hotReloads >= Cardinality(smLast.pending)
        ELSE ~smLast.changed /\ smLast.callbacks = <<>>

(***************************************************************************)
(* C15: a hotReload(programId, description) that returns false has not    *)
(* deleted the old program, has left it the current program if it was,    *)
(* and has left the set of tracked programs as it was before the call.    *)
(***************************************************************************)
C15_FailedHotReloadChangesNothing ==
    (esLast.op = "hotReload" /\ ~esLast.ret) =>
        /\ ~esLast.deletedOld
        /\ esLast.wasCurrent => esLast.isCurrent
        /\ esLast.sameTracked

(***************************************************************************)
(* C16: between initialize() and shutdown() the tracked-program list      *)
(* holds every program created and not yet deleted, no deleted program,   *)
(* and no program twice.                                                  *)
(***************************************************************************)
C16_TrackedListIsTheOutstandingPrograms ==
    es.initialized =>
        /\ \A program \in 1..MaxEnginePrograms :
               GlUndeleted(gl, program) <=> program \in SeqRange(es.active_programs)
        /\ \A i, j \in DOMAIN es.active_programs :
               es.active_programs[i] = es.active_programs[j] => i = j

(***************************************************************************)
(* C17: an updateFromNodeGraph whose shader regeneration fails leaves the *)
(* Pipeline with the program it had and does not delete it, and the       *)
(* render() after it binds that program.                                  *)
(***************************************************************************)
C17_FailedRegenerationKeepsProgram ==
    /\ (esLast.op = "updateFromNodeGraph" /\ ~esLast.ret) =>
           (pl.shader_program = esLast.before /\ ~esLast.deletedOld)
    /\ (esLast.op = "render" /\ esLast.afterFailedUpdate) =>
           /\ pl.shader_program = esLast.before
           /\ glIsProgram(gl, esLast.before) =>
                  (gl.current = esLast.before /\ es.current_program = esLast.before)

C17_Witness ==
    /\ esLast.op = "render" /\ esLast.afterFailedUpdate
    /\ esLast.before # 0
    /\ GlUndeleted(gl, esLast.before)
    /\ gl.current = esLast.before
    /\ es.initialized

(***************************************************************************)
(* C20: include resolution is cut off at nesting depth 10: beside the     *)
(* call on the shader source, at most 10 nested calls of processIncludes  *)
(* are in progress at any time.                                           *)
(***************************************************************************)
C20_NestingCutOffAtDepth10 == Len(piStack) <= 1 + 10

(***************************************************************************)
(* C21: include resolution raises no failure, and its result holds no    *)
(* #include directive: each was replaced by the content of its file or,  *)
(* when the file cannot be loaded, by a comment.                         *)
(***************************************************************************)
C21_ResultHasNoDirective ==
    /\ ~piResult.overflow
    /\ piResult.done => \A i \in DOMAIN piResult.text : piResult.text[i].kind = "text"

(***************************************************************************)
(* CodeInterpreter::executeCode and the built-in functions                *)
(* (src/src/code_interpreter/CodeInterpreter.cpp).  A line of code is the *)
(* command word and the argument words the stream extraction splits it    *)
(* into; a built-in either returns or throws an exception, given here by  *)
(* its class and its what().                                              *)
(***************************************************************************)
MaxCiSent == 2

Str_1 == <<"1">>

\* the argument lists the commands are given: none, a number, a word that
\* is no number, three and four arguments
CiArgs ==
    {<<>>, <<Str_1>>, <<Str_N>>, <<Str_1, Str_N, Str_N>>, <<Str_1, Str_N, Str_1, Str_N>>}

CiCommands ==
    {"createNode", "deleteNode", "connectNodes", "setParameter", "print", "quit", "bogus", ""}

\* the names setupBuiltinFunctions registers
registered_functions == {"createNode", "deleteNode", "connectNodes", "setParameter", "print", "quit"}

\* std::stoi: the digits the string starts with, or std::invalid_argument
stoi_throws(str) == str = <<>> \/ Head(str) \notin {"0", "1", "2", "3", "4", "5", "6", "7", "8", "9"}

RECURSIVE stoi_digits(_, _)
stoi_digits(str, n) ==
    IF str = <<>> \/ Head(str) \notin {"0", "1", "2", "3", "4", "5", "6", "7", "8", "9"}
    THEN n
    ELSE stoi_digits(Tail(str), 10 * n + (CharCode[Head(str)] - 48))

stoi(str) == stoi_digits(str, 0)

CiReturned(next_id, running, sent, id) ==
    [threw |-> FALSE, exception |-> "", what |-> "",
     next_id |-> next_id, running |-> running, sent |-> sent, id |-> id]

CiThrew(next_id, running, exception, what) ==
    [threw |-> TRUE, exception |-> exception, what |-> what,
     next_id |-> next_id, running |-> running, sent |-> <<>>, id |-> 0]

CodeInterpreter_createNodeFunction_CountFirst(args, next_id, running, connected) ==
    IF Len(args) < 2
    THEN CiThrew(next_id + 1, running, "std::runtime_error",
                 "createNode requires at least 2 arguments: name type [x y]")
    ELSE IF ~connected
    THEN CiThrew(next_id + 1, running, "std::runtime_error", "Not connected to engine")
    ELSE CiReturned(next_id + 1, running,
             <<SendS(CREATE_NODE, Join3(to_string(next_id), args[1], args[2]),
                     "interp", <<next_id, args[1], args[2]>>)>>,
             next_id)

CodeInterpreter_createNodeFunction(args, next_id, running, connected) ==
    IF Len(args) < 2
    THEN CiThrew(next_id, running, "std::runtime_error",
                 "createNode requires at least 2 arguments: name type [x y]")
    ELSE IF ~connected
    THEN CiThrew(next_id, running, "std::runtime_error", "Not connected to engine")
    ELSE CiReturned(next_id + 1, running,
             <<SendS(CREATE_NODE, Join3(to_string(next_id), args[1], args[2]),
                     "interp", <<next_id, args[1], args[2]>>)>>,
             next_id)

CodeInterpreter_deleteNodeFunction(args, next_id, running, connected) ==
    IF Len(args) < 1
    THEN CiThrew(next_id, running, "std::runtime_error", "deleteNode requires 1 argument: node_id")
    ELSE IF stoi_throws(args[1])
    THEN CiThrew(next_id, running, "std::invalid_argument", "stoi")
    ELSE IF ~connected
    THEN CiThrew(next_id, running, "std::runtime_error", "Not connected to engine")
    ELSE CiReturned(next_id, running,
             <<SendS(DELETE_NODE, to_string(stoi(args[1])), "interp", <<stoi(args[1])>>)>>, 0)

CodeInterpreter_connectNodesFunction(args, next_id, running, connected) ==
    IF Len(args) < 4
    THEN CiThrew(next_id, running, "std::runtime_error",
                 "connectNodes requires 4 arguments: source_id source_output target_id target_input")
    ELSE IF stoi_throws(args[1]) \/ stoi_throws(args[3])
    THEN CiThrew(next_id, running, "std::invalid_argument", "stoi")
    ELSE IF ~connected
    THEN CiThrew(next_id, running, "std::runtime_error", "Not connected to engine")
    ELSE CiReturned(next_id, running,
             <<SendS(CONNECT_NODES,
                     Join4(to_string(stoi(args[1])), args[2], to_string(stoi(args[3])), args[4]),
                     "interp", <<stoi(args[1]), args[2], stoi(args[3]), args[4]>>)>>, 0)

CodeInterpreter_setParameterFunction(args, next_id, running, connected) ==
    IF Len(args) < 3
    THEN CiThrew(next_id, running, "std::runtime_error",
                 "setParameter requires 3 arguments: node_id param_name value")
    ELSE IF stoi_throws(args[1])
    THEN CiThrew(next_id, running, "std::invalid_argument", "stoi")
    ELSE IF ~connected
    THEN CiThrew(next_id, running, "std::runtime_error", "Not connected to engine")
    ELSE CiReturned(next_id, running,
             <<SendS(SET_PARAMETER, Join3(to_string(stoi(args[1])), args[2], args[3]),
                     "interp", <<stoi(args[1]), args[2], args[3]>>)>>, 0)

\* the registered function of a name, called with args
CiBuiltin(command, args, next_id, running, connected) ==
    CASE command = "createNode" -> CodeInterpreter_createNodeFunction(args, next_id, running, connected)
      [] command = "deleteNode" -> CodeInterpreter_deleteNodeFunction(args, next_id, running, connected)
      [] command = "connectNodes" -> CodeInterpreter_connectNodesFunction(args, next_id, running, connected)
      [] command = "setParameter" -> CodeInterpreter_setParameterFunction(args, next_id, running, connected)
      [] command = "print" -> CiReturned(next_id, running, <<>>, 0)
      [] command = "quit" -> CiReturned(next_id, FALSE, <<>>, 0)

\* the exception classes `catch (const std::exception&)` catches
CiCaught_RuntimeErrorOnly == {"std::runtime_error"}

CiCaught == {"std::runtime_error", "std::invalid_argument"}

\* executeCode: what it returns, or that the exception left it, and what
\* the built-in did
CodeInterpreter_executeCode(command, args, next_id, running, connected) ==
    IF command \in registered_functions
    THEN LET r == CiBuiltin(command, args, next_id, running, connected)
         IN IF ~r.threw
            THEN [escaped |-> FALSE, prefix |-> "OK", what |-> "", word |-> "", builtin |-> r]
            ELSE IF r.exception \in CiCaught
            THEN [escaped |-> FALSE, prefix |-> "Error: ", what |-> r.what, word |-> "", builtin |-> r]
            ELSE [escaped |-> TRUE, prefix |-> "", what |-> "", word |-> "", builtin |-> r]
    ELSE [escaped |-> FALSE, prefix |-> "Unknown command: ", what |-> "", word |-> command,
          builtin |-> CiReturned(next_id, running, <<>>, 0)]

(***************************************************************************)
(* Specification of a Code Interpreter, initialized and running, that     *)
(* executes arbitrary lines of code while the engine comes and goes.      *)
(***************************************************************************)
NotCi == <<ngVars, svVars, erVars, osVars, pgVars, smVars, esVars, piVars, lpVars, mfVars, srVars, prVars, idVars, etVars>>

CiExecuteCode ==
    \E command \in CiCommands :
        \E args \in CiArgs :
            LET r == CodeInterpreter_executeCode(command, args, ciNextId, ciRunning, ciConnected)
                create == command = "createNode"
            IN /\ r.builtin.next_id <= FirstInterpreterId + MaxCiCreates
               /\ Len(engineInbox) + Len(r.builtin.sent) <= MaxCiSent
               /\ command = "" => args = <<>>
               /\ ciNextId' = r.builtin.next_id
               /\ ciRunning' = r.builtin.running
               /\ engineInbox' = engineInbox \o r.builtin.sent
               /\ ciLast' = [op |-> "executeCode", command |-> command, argc |-> Len(args),
                             registered |-> command \in registered_functions,
                             threw |-> r.builtin.threw,
                             escaped |-> r.escaped, prefix |-> r.prefix,
                             what |-> r.what, word |-> r.word,
                             id |-> r.builtin.id,
                             first |-> create /\ ~ciLast.called,
                             idBefore |-> ciLast.prevId,
                             lastBefore |-> ciLast.lastId,
                             called |-> ciLast.called \/ create,
                             prevId |-> IF create THEN r.builtin.id ELSE ciLast.prevId,
                             lastId |-> IF r.builtin.id # 0 THEN r.builtin.id ELSE ciLast.lastId]
               /\ UNCHANGED <<editorInbox, engineGraph, engConnCounter, edNextNodeId,
                              edConnected, edLocalGraph, ciConnected, bigEndian>>
               /\ UNCHANGED NotCi

InitExecuteCode ==
    /\ OscStart /\ bigEndian = FALSE
    /\ ciRunning = TRUE
    /\ ciLast = CiNoCall
    /\ NGIdle /\ SvIdle /\ ErIdle /\ OsIdle /\ PgIdle /\ SmIdle /\ EsIdle /\ PiIdle /\ LpIdle /\ MfIdle /\ SrIdle /\ PrIdle /\ IdIdle /\ EtIdle

NextExecuteCode ==
    \/ CiExecuteCode
    \/ InterpHandleEngineStatus

SpecExecuteCode == InitExecuteCode /\ [][NextExecuteCode]_vars

(***************************************************************************)
(* C22: executeCode lets no failure escape: for a registered command      *)
(* whose built-in signals a failure it returns a string beginning with    *)
(* "Error:", for a command word that is not registered it returns         *)
(* "Unknown command: " followed by the word, and otherwise "OK".          *)
(***************************************************************************)
C22_ExecuteCodeNeverThrows ==
    ciLast.op = "executeCode" =>
        /\ ~ciLast.escaped
        /\ (ciLast.registered /\ ciLast.threw) => ciLast.prefix = "Error: "
        /\ ~ciLast.registered =>
               (ciLast.prefix = "Unknown command: " /\ ciLast.word = ciLast.command)
        /\ (ciLast.registered /\ ~ciLast.threw) => ciLast.prefix = "OK"

\* setParameter with fewer than three arguments, and a node id that is no
\* number
C22_Witness ==
    /\ ciLast.op = "executeCode"
    /\ ciLast.command = "setParameter"
    /\ ciLast.threw
    /\ ciLast.prefix = "Error: "
    /\ ciLast.what \in {"setParameter requires 3 arguments: node_id param_name value", "stoi"}
    /\ ciLast.argc = 1

(***************************************************************************)
(* C23, as stated: the createNode built-in uses id 1000 on its first call *)
(* and on every later call the id of the previous call plus one.          *)
(***************************************************************************)
C23_EveryCallUsesTheNextId ==
    (ciLast.op = "executeCode" /\ ciLast.command = "createNode") =>
        IF ciLast.first
        THEN ciLast.id = FirstInterpreterId
        ELSE ciLast.id = ciLast.idBefore + 1

(***************************************************************************)
(* C23, amended: the first createNode call that passes the argument and   *)
(* connection checks uses id 1000, and every later one that passes them   *)
(* uses the id of the previous such call plus one; a call that fails a    *)
(* check uses no id.                                                      *)
(***************************************************************************)
C23_EverySuccessfulCallUsesTheNextId ==
    (ciLast.op = "executeCode" /\ ciLast.command = "createNode") =>
        IF ciLast.threw
        THEN ciLast.id = 0 /\ ciLast.lastId = ciLast.lastBefore
        ELSE /\ ciLast.id = (IF ciLast.lastBefore = 0
                             THEN FirstInterpreterId ELSE ciLast.lastBefore + 1)
             /\ ciNextId = ciLast.id + 1
             /\ ciLast.lastId = ciLast.id

\* a createNode that failed between two that succeeded
C23_Witness ==
    /\ ciLast.op = "executeCode" /\ ciLast.command = "createNode"
    /\ ~ciLast.threw
    /\ ~ciLast.first
    /\ ciLast.idBefore = 0
    /\ ciLast.lastBefore = FirstInterpreterId
    /\ ciLast.id = FirstInterpreterId + 1

(***************************************************************************)
(* The legacy simple-list Pipeline (src/unnamed/part_007).  Node ids are  *)
(* strings, kept as sequences of characters; the empty string is "no      *)
(* output node".                                                          *)
(***************************************************************************)
MaxLpNodes == 2

MaxLpInputs == 2

Str_n == <<"n">>

Str_v == <<"v">>

Str_x == <<"x">>

Str_noise == <<"n", "o", "i", "s", "e">>

\* std::find_if over impl->nodes: the position of the node, 0 for end()
Pipeline_find(nodes, nodeId) ==
    IF \E i \in DOMAIN nodes : nodes[i].id = nodeId
    THEN CHOOSE i \in DOMAIN nodes : nodes[i].id = nodeId /\ \A j \in 1..(i - 1) : nodes[j].id # nodeId
    ELSE 0

\* std::remove on a vector
SeqRemove(q, x) ==
    LET F[i \in 0..Len(q)] ==
            IF i = 0 THEN <<>> ELSE IF q[i] = x THEN F[i - 1] ELSE Append(F[i - 1], q[i])
    IN F[Len(q)]

MkPipelineNode(id, type, operation, inputs, parameters) ==
    [id |-> id, type |-> type, operation |-> operation, inputs |-> inputs, parameters |-> parameters]

Pipeline_addNode(p, node) ==
    LET it == Pipeline_find(p.nodes, node.id)
    IN [p EXCEPT !.nodes = IF it # 0 THEN [@ EXCEPT ![it] = node] ELSE Append(@, node),
                 !.executionOrderDirty = TRUE]

Pipeline_removeNode(p, nodeId) ==
    LET kept == SelectSeq(p.nodes, LAMBDA n : n.id # nodeId)
    IN [p EXCEPT !.nodes = [i \in DOMAIN kept |->
                               [kept[i] EXCEPT !.inputs = SeqRemove(@, nodeId)]],
                 !.outputNodeId = IF @ = nodeId THEN <<>> ELSE @,
                 !.executionOrderDirty = TRUE]

Pipeline_connectNodes(p, fromNode, toNode) ==
    LET it == Pipeline_find(p.nodes, toNode)
    IN IF it # 0 /\ fromNode \notin SeqRange(p.nodes[it].inputs)
       THEN [p EXCEPT !.nodes[it].inputs = Append(@, fromNode), !.executionOrderDirty = TRUE]
       ELSE p

Pipeline_disconnectNodes(p, fromNode, toNode) ==
    LET it == Pipeline_find(p.nodes, toNode)
    IN IF it # 0
       THEN [p EXCEPT !.nodes[it].inputs = SeqRemove(@, fromNode), !.executionOrderDirty = TRUE]
       ELSE p

Pipeline_setOutputNode(p, nodeId) == [p EXCEPT !.outputNodeId = nodeId]

\* the lambda visit of getExecutionOrder and its loop over a node's inputs
RECURSIVE Pipeline_visit(_, _, _)
RECURSIVE Pipeline_visitInputs(_, _, _)
Pipeline_visit(nodes, st, nodeId) ==
    IF st.threw THEN st
    ELSE IF nodeId \in st.visiting THEN [st EXCEPT !.threw = TRUE]
    ELSE IF nodeId \in st.visited THEN st
    ELSE LET node == Pipeline_find(nodes, nodeId)
             entered == [st EXCEPT !.visiting = @ \cup {nodeId}]
             after == IF node # 0
                      THEN Pipeline_visitInputs(nodes, entered, nodes[node].inputs)
                      ELSE entered
         IN IF after.threw
            THEN after
            ELSE [after EXCEPT !.visiting = @ \ {nodeId},
                               !.visited = @ \cup {nodeId},
                               !.result = Append(@, nodeId)]

Pipeline_visitInputs(nodes, st, inputs) ==
    IF inputs = <<>> \/ st.threw
    THEN st
    ELSE Pipeline_visitInputs(nodes, Pipeline_visit(nodes, st, Head(inputs)), Tail(inputs))

\* getExecutionOrder: whether it threw, what it returned, and the Pipeline
\* with its cache
Pipeline_getExecutionOrder(p) ==
    LET start == [visited |-> {}, visiting |-> {}, result |-> <<>>, threw |-> FALSE]
        st == IF p.outputNodeId # <<>> THEN Pipeline_visit(p.nodes, start, p.outputNodeId) ELSE start
    IN IF ~p.executionOrderDirty /\ p.cachedExecutionOrder # <<>>
       THEN [threw |-> FALSE, result |-> p.cachedExecutionOrder, p |-> p]
       ELSE IF st.threw
       THEN [threw |-> TRUE, result |-> <<>>, p |-> p]
       ELSE [threw |-> FALSE, result |-> st.result,
             p |-> [p EXCEPT !.cachedExecutionOrder = st.result, !.executionOrderDirty = FALSE]]

LpError(text, id, by) == [text |-> text, id |-> id, by |-> by]

\* the errors of the loop over every node's inputs
Pipeline_inputErrors(nodes) ==
    LET Missing(i) == SelectSeq(nodes[i].inputs, LAMBDA input : Pipeline_find(nodes, input) = 0)
        Of(i) == [k \in DOMAIN Missing(i) |->
                     LpError("Input node not found: ", Missing(i)[k], nodes[i].id)]
        F[i \in 0..Len(nodes)] == IF i = 0 THEN <<>> ELSE F[i - 1] \o Of(i)
    IN F[Len(nodes)]

Pipeline_validate_NoOutputCheck(p) ==
    LET cleared == [p EXCEPT !.errors = <<>>]
        order == Pipeline_getExecutionOrder(cleared)
        errors == Pipeline_inputErrors(p.nodes)
    IN IF p.nodes = <<>>
       THEN [ret |-> FALSE, p |-> [cleared EXCEPT !.errors = <<LpError("Pipeline is empty", <<>>, <<>>)>>]]
       ELSE IF order.threw
       THEN [ret |-> FALSE,
             p |-> [cleared EXCEPT !.errors = <<LpError("Circular dependency detected", <<>>, <<>>)>>]]
       ELSE [ret |-> errors = <<>>, p |-> [order.p EXCEPT !.errors = errors]]

Pipeline_validate(p) ==
    LET cleared == [p EXCEPT !.errors = <<>>]
        order == Pipeline_getExecutionOrder(cleared)
        errors == Pipeline_inputErrors(p.nodes)
    IN IF p.nodes = <<>>
       THEN [ret |-> FALSE, p |-> [cleared EXCEPT !.errors = <<LpError("Pipeline is empty", <<>>, <<>>)>>]]
       ELSE IF p.outputNodeId = <<>>
       THEN [ret |-> FALSE,
             p |-> [cleared EXCEPT !.errors = <<LpError("No output node specified", <<>>, <<>>)>>]]
       ELSE IF Pipeline_find(p.nodes, p.outputNodeId) = 0
       THEN [ret |-> FALSE,
             p |-> [cleared EXCEPT !.errors =
                       <<LpError("Output node not found: ", p.outputNodeId, <<>>)>>]]
       ELSE IF order.threw
       THEN [ret |-> FALSE,
             p |-> [cleared EXCEPT !.errors = <<LpError("Circular dependency detected", <<>>, <<>>)>>]]
       ELSE [ret |-> errors = <<>>, p |-> [order.p EXCEPT !.errors = errors]]

(***************************************************************************)
(* Specification of a legacy Pipeline driven by arbitrary calls.          *)
(***************************************************************************)
NotLp == <<ngVars, oscVars, svVars, erVars, osVars, pgVars, smVars, esVars, piVars, ciVars, mfVars, srVars, prVars, idVars, etVars>>

LpNodeIds == {Str_n, Str_v}

LpAddNode ==
    \E id \in LpNodeIds :
        /\ Len(Pipeline_addNode(lp, MkPipelineNode(id, "Generator", Str_noise, <<>>, <<>>)).nodes)
               <= MaxLpNodes
        /\ lp' = Pipeline_addNode(lp, MkPipelineNode(id, "Generator", Str_noise, <<>>, <<>>))
        /\ lpLast' = [op |-> "edit"]
        /\ UNCHANGED <<lpDesc, NotLp>>

LpRemoveNode ==
    \E nodeId \in LpNodeIds :
        /\ lp' = Pipeline_removeNode(lp, nodeId)
        /\ lpLast' = [op |-> "edit"]
        /\ UNCHANGED <<lpDesc, NotLp>>

LpConnectNodes ==
    \E fromNode \in LpNodeIds \cup {Str_x}, toNode \in LpNodeIds :
        /\ \A i \in DOMAIN Pipeline_connectNodes(lp, fromNode, toNode).nodes :
               Len(Pipeline_connectNodes(lp, fromNode, toNode).nodes[i].inputs) <= MaxLpInputs
        /\ lp' = Pipeline_connectNodes(lp, fromNode, toNode)
        /\ lpLast' = [op |-> "edit"]
        /\ UNCHANGED <<lpDesc, NotLp>>

LpDisconnectNodes ==
    \E fromNode \in LpNodeIds \cup {Str_x}, toNode \in LpNodeIds :
        /\ lp' = Pipeline_disconnectNodes(lp, fromNode, toNode)
        /\ lpLast' = [op |-> "edit"]
        /\ UNCHANGED <<lpDesc, NotLp>>

LpSetOutputNode ==
    \E nodeId \in LpNodeIds \cup {Str_x, <<>>} :
        /\ lp' = Pipeline_setOutputNode(lp, nodeId)
        /\ lpLast' = [op |-> "edit"]
        /\ UNCHANGED <<lpDesc, NotLp>>

\* the nodes that are on a cycle of inputs
LpOnCycle(nodes) ==
    LET ids == {nodes[i].id : i \in DOMAIN nodes}
        edges == UNION {{<<nodes[i].inputs[k], nodes[i].id>> : k \in DOMAIN nodes[i].inputs} :
                         i \in DOMAIN nodes}
        Step(seen) == seen \cup {e[2] : e \in {d \in edges : d[1] \in seen}}
    IN {id \in ids : id \in Step(Step({e[2] : e \in {d \in edges : d[1] = id}}))}

\* the checks of validate() the Pipeline fails
LpFailingChecks(p) ==
    {c \in {"empty pipeline", "missing output node", "output node not found",
            "cyclic dependency", "dangling input reference"} :
        CASE c = "empty pipeline" -> p.nodes = <<>>
          [] c = "missing output node" -> p.outputNodeId = <<>>
          [] c = "output node not found" ->
                 p.outputNodeId # <<>> /\ Pipeline_find(p.nodes, p.outputNodeId) = 0
          [] c = "cyclic dependency" -> LpOnCycle(p.nodes) # {}
          [] c = "dangling input reference" ->
                 \E i \in DOMAIN p.nodes : \E k \in DOMAIN p.nodes[i].inputs :
                     Pipeline_find(p.nodes, p.nodes[i].inputs[k]) = 0}

\* the error text validate() records for a failing check
LpErrorOf(check) ==
    CASE check = "empty pipeline" -> "Pipeline is empty"
      [] check = "missing output node" -> "No output node specified"
      [] check = "output node not found" -> "Output node not found: "
      [] check = "cyclic dependency" -> "Circular dependency detected"
      [] check = "dangling input reference" -> "Input node not found: "

LpValidate ==
    LET r == Pipeline_validate(lp)
    IN /\ lp' = r.p
       /\ lpLast' = [op |-> "validate", ret |-> r.ret, threw |-> FALSE,
                     failing |-> LpFailingChecks(lp)]
       /\ UNCHANGED <<lpDesc, NotLp>>

InitLegacyPipeline ==
    /\ LpIdle
    /\ NGIdle /\ OscIdle /\ SvIdle /\ ErIdle /\ OsIdle /\ PgIdle /\ SmIdle /\ EsIdle /\ PiIdle /\ CiIdle /\ MfIdle /\ SrIdle /\ PrIdle /\ IdIdle /\ EtIdle

NextLegacyPipeline ==
    \/ LpAddNode
    \/ LpRemoveNode
    \/ LpConnectNodes
    \/ LpDisconnectNodes
    \/ LpSetOutputNode
    \/ LpValidate

SpecLegacyPipeline == InitLegacyPipeline /\ [][NextLegacyPipeline]_vars

LpErrorTexts == {lp.errors[i].text : i \in DOMAIN lp.errors}

(***************************************************************************)
(* C24: validate() on a Pipeline without nodes returns false and records  *)
(* the empty-pipeline error; on a Pipeline with nodes and no output node  *)
(* it returns false and records the no-output-node error; the error is in *)
(* the error list and nothing is thrown.                                  *)
(***************************************************************************)
C24_EmptyAndNoOutputAreErrors ==
    lpLast.op = "validate" =>
        /\ ~lpLast.threw
        /\ "empty pipeline" \in lpLast.failing =>
               (~lpLast.ret /\ "Pipeline is empty" \in LpErrorTexts)
        /\ ("empty pipeline" \notin lpLast.failing /\ "missing output node" \in lpLast.failing) =>
               (~lpLast.ret /\ "No output node specified" \in LpErrorTexts)

C24_Witness ==
    /\ lpLast.op = "validate"
    /\ lp.nodes # <<>>
    /\ lp.outputNodeId = <<>>
    /\ ~lpLast.ret
    /\ LpErrorTexts = {"No output node specified"}

(***************************************************************************)
(* C25: one call of validate() records every check that fails: empty      *)
(* pipeline, missing output node, output node not found, cyclic           *)
(* dependency, dangling input reference.                                  *)
(***************************************************************************)
C25_EveryFailingCheckRecorded ==
    lpLast.op = "validate" =>
        \A check \in lpLast.failing : LpErrorOf(check) \in LpErrorTexts

(***************************************************************************)
(* Pipeline::deserialize and Pipeline::fromDescription.  A description is *)
(* the sequence of the lines std::getline takes from it; a line is a      *)
(* sequence of characters.                                                *)
(***************************************************************************)
MaxLpLines == 3

\* std::string::npos, as a position no string has
npos == -1

\* std::string::find(pattern, from) with positions counted from 0
StrFind(line, pattern, from) ==
    LET At(i) == /\ i + Len(pattern) <= Len(line)
                 /\ \A k \in 1..Len(pattern) : line[i + k] = pattern[k]
        hits == {i \in 0..Len(line) : i >= from /\ At(i)}
    IN IF from = npos \/ hits = {} THEN npos ELSE CHOOSE i \in hits : \A j \in hits : i <= j

\* std::string::substr(pos, count); count is a size_t, so a negative
\* difference is a count beyond the end of the string
StrSubstr(line, pos, count) ==
    LET n == IF count < 0 \/ pos + count > Len(line) THEN Len(line) - pos ELSE count
    IN [i \in 1..n |-> line[pos + i]]

Str_gen_ == <<"g", "e", "n", " ">>

Str_output_ == <<"o", "u", "t", "p", "u", "t", "(">>

\* one turn of the getline loop of deserialize
Pipeline_deserializeLine(p, line) ==
    LET eq == StrFind(line, <<"=">>, 0)
        paren == StrFind(line, <<"(">>, 0)
        start == StrFind(line, <<"(">>, 0) + 1
        comma == StrFind(line, <<",">>, start)
        end == StrFind(line, <<")">>, comma)
        inputId == StrSubstr(line, start, comma - start)
        channel == StrSubstr(line, comma + 1, end - comma - 1)
    IN IF StrFind(line, Str_gen_, 0) = 0
       THEN IF eq # npos /\ paren # npos
            THEN Pipeline_addNode(p, MkPipelineNode(StrSubstr(line, 4, eq - 4), "Generator",
                                                    StrSubstr(line, eq + 1, paren - eq - 1),
                                                    <<>>, <<>>))
            ELSE p
       ELSE IF StrFind(line, Str_output_, 0) = 0
       THEN IF comma # npos /\ end # npos
            THEN Pipeline_setOutputNode(
                     Pipeline_addNode(p, MkPipelineNode(Str_output, "Output", Str_output,
                                                        <<inputId>>, <<channel>>)),
                     Str_output)
            ELSE p
       ELSE p

Pipeline_deserialize(p, data) ==
    LET cleared == [p EXCEPT !.nodes = <<>>, !.outputNodeId = <<>>, !.executionOrderDirty = TRUE]
        F[i \in 0..Len(data)] ==
            IF i = 0 THEN cleared ELSE Pipeline_deserializeLine(F[i - 1], data[i])
    IN Pipeline_validate(F[Len(data)])

\* fromDescription: whether a pipeline is returned, and the pipeline made
Pipeline_fromDescription(description) ==
    LET r == Pipeline_deserialize(Pipeline_new, description)
    IN [nonnull |-> r.ret, pipeline |-> r.p]

Line_gen_n == <<"g", "e", "n", " ", "n", "=", "n", "o", "i", "s", "e", "(", ")", ";">>

Line_gen_v == <<"g", "e", "n", " ", "v", "=", "v", "o", "r", "o", "n", "o", "i", "(", ")", ";">>

Line_operator == <<"n", "=", "m", "u", "l", "t", "i", "p", "l", "y", "(", "n", ",", "v", ")", ";">>

Line_output_n == <<"o", "u", "t", "p", "u", "t", "(", "n", ",", "0", ")", ";">>

Line_output_x == <<"o", "u", "t", "p", "u", "t", "(", "x", ",", "0", ")", ";">>

Line_gen_output == <<"g", "e", "n", " ", "o", "u", "t", "p", "u", "t", "=", "n", "o", "i", "s", "e", "(", ")", ";">>

Line_output_output == <<"o", "u", "t", "p", "u", "t", "(", "o", "u", "t", "p", "u", "t", ",", "0", ")", ";">>

Line_gen_unfinished == <<"g", "e", "n", " ", "n", "=", "n", "o", "i", "s", "e">>

LpLines ==
    {Line_gen_n, Line_gen_v, Line_operator, Line_output_n, Line_output_x, Line_gen_output, Line_output_output, Line_gen_unfinished}

\* what a line of LpLines is in the description language
LpLineForm(line) ==
    CASE line = Line_gen_n -> [form |-> "gen", id |-> <<"n">>]
      [] line = Line_gen_v -> [form |-> "gen", id |-> <<"v">>]
      [] line = Line_operator -> [form |-> "other", id |-> <<>>]
      [] line = Line_output_n -> [form |-> "output", id |-> <<"n">>]
      [] line = Line_output_x -> [form |-> "output", id |-> <<"x">>]
      [] line = Line_gen_output -> [form |-> "gen", id |-> <<"o", "u", "t", "p", "u", "t">>]
      [] line = Line_output_output -> [form |-> "output", id |-> <<"o", "u", "t", "p", "u", "t">>]
      [] line = Line_gen_unfinished -> [form |-> "other", id |-> <<>>]

LpDescriptions == UNION {[1..n -> LpLines] : n \in 0..MaxLpLines}

LpFromDescription ==
    LET r == Pipeline_fromDescription(lpDesc)
    IN /\ lpLast.op = "none"
       /\ lp' = r.pipeline
       /\ lpLast' = [op |-> "fromDescription", nonnull |-> r.nonnull]
       /\ UNCHANGED <<lpDesc, NotLp>>

InitFromDescription ==
    /\ lp = Pipeline_new
    /\ lpDesc \in LpDescriptions
    /\ lpLast = [op |-> "none"]
    /\ NGIdle /\ OscIdle /\ SvIdle /\ ErIdle /\ OsIdle /\ PgIdle /\ SmIdle /\ EsIdle /\ PiIdle /\ CiIdle /\ MfIdle /\ SrIdle /\ PrIdle /\ IdIdle /\ EtIdle

NextFromDescription == LpFromDescription

SpecFromDescription == InitFromDescription /\ [][NextFromDescription]_vars

\* the generators a description declares and the ids its output lines name
LpDeclaredGenerators ==
    {LpLineForm(lpDesc[i]).id : i \in {k \in DOMAIN lpDesc : LpLineForm(lpDesc[k]).form = "gen"}}

LpOutputLines == {k \in DOMAIN lpDesc : LpLineForm(lpDesc[k]).form = "output"}

(***************************************************************************)
(* C26: fromDescription returns a pipeline exactly when the pipeline read *)
(* from the description passes validate(); a description that declares    *)
(* generators and an output referring to one of them yields a non-null    *)
(* pipeline whose output node has that generator as its input.            *)
(***************************************************************************)
C26_GeneratorsAndOutputYieldAPipeline ==
    lpLast.op = "fromDescription" =>
        /\ lpLast.nonnull <=> Pipeline_validate(lp).ret
        /\ \A k \in LpOutputLines :
               (LpOutputLines = {k} /\ LpLineForm(lpDesc[k]).id \in LpDeclaredGenerators) =>
                   /\ lpLast.nonnull
                   /\ Pipeline_find(lp.nodes, lp.outputNodeId) # 0
                   /\ lp.nodes[Pipeline_find(lp.nodes, lp.outputNodeId)].inputs
                          = <<LpLineForm(lpDesc[k]).id>>

\* the description of main (part_004) gives a pipeline
C26_MainDescriptionLoads ==
    (lpLast.op = "fromDescription" /\ lpDesc = <<Line_gen_n, Line_gen_v, Line_output_n>>) =>
        lpLast.nonnull

(***************************************************************************)
(* ModuleFactory (src/unnamed/part_009) and the REGISTER_MODULE           *)
(* initializers of GeneratorModules.cpp and of the operator modules       *)
(* (src/unnamed/part_011).  creators_ and the registrars are dynamically  *)
(* initialized statics of three translation units: within one unit they   *)
(* run in the order written, across units in no fixed order.              *)
(***************************************************************************)
GeneratorRegistrations ==
    <<[name |-> "noise", class |-> "NoiseGenerator"],
      [name |-> "voronoi", class |-> "VoronoiGenerator"],
      [name |-> "gradient", class |-> "GradientGenerator"],
      [name |-> "random", class |-> "RandomGenerator"],
      [name |-> "fbm", class |-> "FBMGenerator"]>>

OperatorRegistrations ==
    <<[name |-> "blend", class |-> "BlendOperator"],
      [name |-> "transform", class |-> "TransformOperator"],
      [name |-> "math", class |-> "MathOperator"],
      [name |-> "color", class |-> "ColorOperator"],
      [name |-> "filter", class |-> "FilterOperator"]>>

\* the name each module class hands to the PipelineModule constructor
PipelineModule_getName(class) ==
    CASE class = "NoiseGenerator" -> "noise"
      [] class = "VoronoiGenerator" -> "voronoi"
      [] class = "GradientGenerator" -> "gradient"
      [] class = "RandomGenerator" -> "random"
      [] class = "FBMGenerator" -> "fbm"
      [] class = "BlendOperator" -> "blend"
      [] class = "TransformOperator" -> "transform"
      [] class = "MathOperator" -> "math"
      [] class = "ColorOperator" -> "color"
      [] class = "FilterOperator" -> "filter"

\* the dynamic initialization of creators_: an empty map, whatever the
\* storage held
ModuleFactory_creators_init(f) == [f EXCEPT !.constructed = TRUE, !.creators_ = EmptyMap]

\* registerModule.  On a creators_ that is not constructed yet operator[]
\* has undefined behaviour: the process dies, or the entry is written into
\* the zero-initialized storage as if that were an empty map
ModuleFactory_registerModule(f, name, class) ==
    IF f.constructed
    THEN {[f EXCEPT !.creators_ = MapPut(@, name, class)]}
    ELSE {[f EXCEPT !.crashed = TRUE], [f EXCEPT !.creators_ = MapPut(@, name, class)]}

\* createModule: the class of the new instance, "nullptr" for none
ModuleFactory_createModule(f, name) ==
    IF name \in DOMAIN f.creators_ THEN f.creators_[name] ELSE "nullptr"

NotMf ==
    <<ngVars, oscVars, svVars, erVars, osVars, pgVars, smVars, esVars, piVars, ciVars, lpVars,
      srVars, prVars, idVars, etVars>>

MfInitCreators ==
    /\ ~mf.constructed /\ ~mf.crashed
    /\ mf' = ModuleFactory_creators_init(mf)
    /\ UNCHANGED <<mfTU, mfLast, NotMf>>

MfRegisterGenerator ==
    /\ ~mf.crashed
    /\ mfTU.generators < Len(GeneratorRegistrations)
    /\ LET r == GeneratorRegistrations[mfTU.generators + 1]
       IN mf' \in ModuleFactory_registerModule(mf, r.name, r.class)
    /\ mfTU' = [mfTU EXCEPT !.generators = @ + 1]
    /\ UNCHANGED <<mfLast, NotMf>>

MfRegisterOperator ==
    /\ ~mf.crashed
    /\ mfTU.operators < Len(OperatorRegistrations)
    /\ LET r == OperatorRegistrations[mfTU.operators + 1]
       IN mf' \in ModuleFactory_registerModule(mf, r.name, r.class)
    /\ mfTU' = [mfTU EXCEPT !.operators = @ + 1]
    /\ UNCHANGED <<mfLast, NotMf>>

\* static initialization is over and main() begins
MfMain ==
    /\ ~mf.crashed /\ ~mf.started
    /\ mf.constructed
    /\ mfTU.generators = Len(GeneratorRegistrations)
    /\ mfTU.operators = Len(OperatorRegistrations)
    /\ mf' = [mf EXCEPT !.started = TRUE]
    /\ UNCHANGED <<mfTU, mfLast, NotMf>>

MfRegisteredNames ==
    {"noise", "voronoi", "gradient", "random", "fbm", "blend", "transform", "math", "color", "filter"}

MfNames == MfRegisteredNames \cup {"multiply", ""}

MfCreateModule ==
    \E name \in MfNames :
        /\ mf.started
        /\ mfLast' = [op |-> "createModule", name |-> name,
                      instance |-> ModuleFactory_createModule(mf, name)]
        /\ UNCHANGED <<mf, mfTU, NotMf>>

InitModuleFactory ==
    /\ MfIdle
    /\ NGIdle /\ OscIdle /\ SvIdle /\ ErIdle /\ OsIdle /\ PgIdle /\ SmIdle /\ EsIdle /\ PiIdle /\ CiIdle /\ SrIdle /\ PrIdle /\ IdIdle /\ EtIdle
    /\ LpIdle

NextModuleFactory ==
    \/ MfInitCreators
    \/ MfRegisterGenerator
    \/ MfRegisterOperator
    \/ MfMain
    \/ MfCreateModule

SpecModuleFactory == InitModuleFactory /\ [][NextModuleFactory]_vars

(***************************************************************************)
(* C27: after start-up createModule gives, for each of the ten registered *)
(* names, a new instance whose getName() is the requested name, whatever  *)
(* order the static registrations ran in, and no instance for any other   *)
(* name.                                                                  *)
(***************************************************************************)
C27_CreateModuleKnowsTheTenNames ==
    mfLast.op = "createModule" =>
        IF mfLast.name \in MfRegisteredNames
        THEN /\ mfLast.instance # "nullptr"
             /\ PipelineModule_getName(mfLast.instance) = mfLast.name
        ELSE mfLast.instance = "nullptr"

\* start-up is reached only when the registrars did not bring the process down
C27_StartUpReached == ~mf.crashed

(***************************************************************************)
(* initialize() and run() of the three services up to the main loop       *)
(* (src/unnamed/part_017 23-84, NodeEditor.h 187-294, CodeInterpreter.cpp *)
(* 24-86).  The environment decides which calls into the window system,   *)
(* the file system and liblo fail.                                        *)
(***************************************************************************)
InitSteps(s) ==
    CASE s = "engine" -> {"RenderContext::initialize", "lygia_path", "lo_server_new"}
      [] s = "editor" -> {"glfwInit", "glfwCreateWindow", "glewInit", "lo_server_new"}
      [] s = "interp" -> {"lo_server_new"}

\* the first step of the list the environment fails, "none" if there is none
FirstFailing(steps, failing) ==
    IF \E i \in DOMAIN steps : steps[i] \in failing
    THEN steps[CHOOSE i \in DOMAIN steps :
                   steps[i] \in failing /\ \A j \in 1..(i - 1) : steps[j] \notin failing]
    ELSE "none"

\* Pipeline::initialize fails only on a shader manager that is not initialized
GraphicsEngine_initialize(failing) ==
    LET shader_manager_initialized == "lygia_path" \notin failing
        failed == IF "RenderContext::initialize" \in failing THEN "RenderContext::initialize"
                  ELSE IF ~shader_manager_initialized THEN "lygia_path"
                  ELSE IF ~shader_manager_initialized THEN "Pipeline::initialize"
                  ELSE IF "lo_server_new" \in failing THEN "lo_server_new"
                  ELSE "none"
    IN [ret |-> failed = "none", failed |-> failed, server |-> failed = "none"]

NodeEditor_initializeImGui(failing) ==
    FirstFailing(<<"glfwInit", "glfwCreateWindow", "glewInit">>, failing)

NodeEditor_initialize(failing) ==
    LET failed == IF NodeEditor_initializeImGui(failing) # "none"
                  THEN NodeEditor_initializeImGui(failing)
                  ELSE FirstFailing(<<"lo_server_new">>, failing)
    IN [ret |-> failed = "none", failed |-> failed, server |-> failed = "none"]

CodeInterpreter_initialize(failing) ==
    LET failed == FirstFailing(<<"lo_server_new">>, failing)
    IN [ret |-> failed = "none", failed |-> failed, server |-> failed = "none"]

Service_initialize(s, failing) ==
    CASE s = "engine" -> GraphicsEngine_initialize(failing)
      [] s = "editor" -> NodeEditor_initialize(failing)
      [] s = "interp" -> CodeInterpreter_initialize(failing)

\* what run() sends once running_ is set: the engine and the editor their
\* "running" status to both peers, the interpreter a ping to both
Service_runSends(s) ==
    CASE s = "engine" -> <<[to |-> "editor", path |-> "/engine/status", arg |-> "running"],
                           [to |-> "interp", path |-> "/engine/status", arg |-> "running"]>>
      [] s = "editor" -> <<[to |-> "engine", path |-> "/node_editor/status", arg |-> "running"],
                           [to |-> "interp", path |-> "/node_editor/status", arg |-> "running"]>>
      [] s = "interp" -> <<[to |-> "engine", path |-> "/ping", arg |-> ""],
                           [to |-> "editor", path |-> "/ping", arg |-> ""]>>

Service_run_FlagFirst(v, s, failing) ==
    LET init == Service_initialize(s, failing)
    IN IF ~init.ret
       THEN [v EXCEPT !.pc = "returned", !.running_ = TRUE, !.failed = init.failed]
       ELSE [v EXCEPT !.pc = "loop", !.server = init.server, !.running_ = TRUE,
                      !.entered = TRUE, !.sent = @ \o Service_runSends(s)]

\* run() up to its first loop check
Service_run(v, s, failing) ==
    LET init == Service_initialize(s, failing)
    IN IF ~init.ret
       THEN [v EXCEPT !.pc = "returned", !.failed = init.failed]
       ELSE [v EXCEPT !.pc = "loop", !.server = init.server, !.running_ = TRUE,
                      !.entered = TRUE, !.sent = @ \o Service_runSends(s)]

NotSr ==
    <<ngVars, oscVars, svVars, erVars, osVars, pgVars, smVars, esVars, piVars, ciVars, lpVars,
      mfVars, prVars, idVars, etVars>>

SrRun(s) ==
    \E failing \in SUBSET InitSteps(s) :
        /\ sr[s].pc = "constructed"
        /\ sr' = [sr EXCEPT ![s] = Service_run(@, s, failing)]
        /\ UNCHANGED NotSr

\* handleQuit, on the thread of the service's OSC server
SrHandleQuit(s) ==
    /\ sr[s].server
    /\ sr[s].running_
    /\ sr' = [sr EXCEPT ![s].running_ = FALSE]
    /\ UNCHANGED NotSr

\* the loop condition read as false: run() returns
SrLoopExit(s) ==
    /\ sr[s].pc = "loop"
    /\ ~sr[s].running_
    /\ sr' = [sr EXCEPT ![s].pc = "returned"]
    /\ UNCHANGED NotSr

InitServiceRun ==
    /\ SrIdle
    /\ NGIdle /\ OscIdle /\ SvIdle /\ ErIdle /\ OsIdle /\ PgIdle /\ SmIdle /\ EsIdle /\ PiIdle /\ CiIdle /\ PrIdle /\ IdIdle /\ EtIdle
    /\ LpIdle /\ MfIdle

NextServiceRun ==
    \/ \E s \in RunServices : SrRun(s)
    \/ \E s \in RunServices : SrHandleQuit(s)
    \/ \E s \in RunServices : SrLoopExit(s)

SpecServiceRun == InitServiceRun /\ [][NextServiceRun]_vars

StreamPrecision == 6

Pow10(k) == LET F[i \in 0..k] == IF i = 0 THEN 1 ELSE 10 * F[i - 1] IN F[k]

\* the number of decimal digits of a natural number
NumDigits(n) == CHOOSE d \in 1..10 : (d = 10 \/ n < Pow10(d)) /\ (d = 1 \/ n >= Pow10(d - 1))

DigitValue(c) == CHOOSE d \in 0..9 : DigitChar(d) = c

IsDigit(c) == c \in {"0", "1", "2", "3", "4", "5", "6", "7", "8", "9"}

RECURSIVE StripTrailingZeros(_)
StripTrailingZeros(str) ==
    IF str # <<>> /\ str[Len(str)] = "0"
    THEN StripTrailingZeros(SubSeq(str, 1, Len(str) - 1))
    ELSE str

\* a / d rounded to the nearest whole number, a tie to the even one
RoundHalfEven(a, d) ==
    LET q == a \div d
        r == a % d
    IN IF 2 * r > d \/ (2 * r = d /\ q % 2 = 1) THEN q + 1 ELSE q

\* operator<<(float) for a whole number: fixed notation while the value has
\* at most StreamPrecision digits, scientific notation with the mantissa
\* rounded to StreamPrecision digits above that
ostream_float(v) ==
    LET a == IF v < 0 THEN 0 - v ELSE v
        sign == IF v < 0 THEN <<"-">> ELSE <<>>
        e0 == NumDigits(a) - 1
        q0 == RoundHalfEven(a, Pow10(e0 - (StreamPrecision - 1)))
        carried == q0 = Pow10(StreamPrecision)
        q == IF carried THEN q0 \div 10 ELSE q0
        e == IF carried THEN e0 + 1 ELSE e0
        digits == NatToString(q)
        fraction == StripTrailingZeros(Tail(digits))
        exponent == IF e < 10 THEN <<"0">> \o NatToString(e) ELSE NatToString(e)
    IN IF a < Pow10(StreamPrecision)
       THEN sign \o NatToString(a)
       ELSE sign \o <<Head(digits)>> \o (IF fraction = <<>> THEN <<>> ELSE <<".">> \o fraction)
                 \o <<"e", "+">> \o exponent

\* the leading digits of a string, and their value
RECURSIVE DigitPrefix(_)
DigitPrefix(str) ==
    IF str # <<>> /\ IsDigit(Head(str)) THEN <<Head(str)>> \o DigitPrefix(Tail(str)) ELSE <<>>

DigitsValue(digits) ==
    LET F[i \in 0..Len(digits)] == IF i = 0 THEN 0 ELSE 10 * F[i - 1] + DigitValue(digits[i])
    IN F[Len(digits)]

\* std::stoi of a decimal number with an optional sign
Parameter_stoi(str) ==
    LET negative == str # <<>> /\ Head(str) = "-"
        body == IF negative THEN Tail(str) ELSE str
        n == DigitsValue(DigitPrefix(body))
    IN IF negative THEN 0 - n ELSE n

\* std::stof of sign, digits, fraction and exponent, for strings whose value
\* is a whole number
stof(str) ==
    LET negative == str # <<>> /\ Head(str) = "-"
        body == IF negative THEN Tail(str) ELSE str
        whole == DigitPrefix(body)
        rest1 == SubSeq(body, Len(whole) + 1, Len(body))
        fraction == IF rest1 # <<>> /\ Head(rest1) = "." THEN DigitPrefix(Tail(rest1)) ELSE <<>>
        rest2 == IF rest1 # <<>> /\ Head(rest1) = "."
                 THEN SubSeq(rest1, Len(fraction) + 2, Len(rest1)) ELSE rest1
        exponent == IF Len(rest2) >= 2 /\ rest2[1] = "e" /\ rest2[2] = "+"
                    THEN DigitsValue(DigitPrefix(SubSeq(rest2, 3, Len(rest2))))
                    ELSE 0
        mantissa == DigitsValue(whole \o fraction)
        n == IF exponent >= Len(fraction)
             THEN mantissa * Pow10(exponent - Len(fraction))
             ELSE mantissa \div Pow10(Len(fraction) - exponent)
    IN IF negative THEN 0 - n ELSE n

\* the tokens std::getline(ss, token, ',') yields one after the other
RECURSIVE SplitComma(_, _)
SplitComma(str, token) ==
    IF str = <<>> THEN <<token>>
    ELSE IF Head(str) = "," THEN <<token>> \o SplitComma(Tail(str), <<>>)
    ELSE SplitComma(Tail(str), Append(token, Head(str)))

\* the token after the i-th getline: a getline at the end of the stream
\* leaves the token as it was
TokenAt(str, i) ==
    LET tokens == SplitComma(str, <<>>)
    IN IF i <= Len(tokens) THEN tokens[i] ELSE tokens[Len(tokens)]

Str_true == <<"t", "r", "u", "e">>

Str_false == <<"f", "a", "l", "s", "e">>

VecSize(type) ==
    CASE type = "VEC2" -> 2 [] type = "VEC3" -> 3 [] type \in {"VEC4", "COLOR"} -> 4

JoinComma(strs) ==
    LET F[i \in 1..Len(strs)] == IF i = 1 THEN strs[1] ELSE F[i - 1] \o Comma \o strs[i]
    IN F[Len(strs)]

Parameter_toString(p) ==
    CASE p.type = "INT" -> to_string(p.int_value)
      [] p.type = "FLOAT" -> ostream_float(p.float_value)
      [] p.type = "STRING" -> p.string_value_
      [] p.type = "BOOL" -> IF p.bool_value THEN Str_true ELSE Str_false
      [] p.type \in {"VEC2", "VEC3", "VEC4", "COLOR"} ->
             JoinComma([i \in 1..VecSize(p.type) |-> ostream_float(p.vec_values[i])])

Parameter_fromString(p, str) ==
    CASE p.type = "INT" -> [p EXCEPT !.int_value = Parameter_stoi(str)]
      [] p.type = "FLOAT" -> [p EXCEPT !.float_value = stof(str)]
      [] p.type = "STRING" -> [p EXCEPT !.string_value_ = str]
      [] p.type = "BOOL" -> [p EXCEPT !.bool_value = (str = Str_true \/ str = Str_1)]
      [] p.type \in {"VEC2", "VEC3", "VEC4", "COLOR"} ->
             [p EXCEPT !.vec_values =
                 [i \in 1..4 |-> IF i <= VecSize(p.type) THEN stof(TokenAt(str, i)) ELSE @[i]]]

(***************************************************************************)
(* Specification of one round trip: a Parameter of any type with a value  *)
(* is written with toString(), and a fresh Parameter of the same type     *)
(* reads the string with fromString().                                    *)
(***************************************************************************)
IntValues == {-2147483647, -1, 0, 42, 2147483647}

FloatValues == {-1234567, 0, 1, 250000, 999999, 1000000, 1234565, 9999995, 16777216}

VecValues == {0, 1, 1234567}

StringValues == {<<>>, Str_noise, <<"1", ",", "5">>}

ParameterTypes == {"INT", "FLOAT", "STRING", "BOOL", "VEC2", "VEC3", "VEC4", "COLOR"}

ParameterValues ==
    {[Parameter_new("INT") EXCEPT !.int_value = v] : v \in IntValues}
        \cup {[Parameter_new("FLOAT") EXCEPT !.float_value = v] : v \in FloatValues}
        \cup {[Parameter_new("STRING") EXCEPT !.string_value_ = v] : v \in StringValues}
        \cup {[Parameter_new("BOOL") EXCEPT !.bool_value = v] : v \in BOOLEAN}
        \cup UNION {{[Parameter_new(t) EXCEPT !.vec_values = [i \in 1..4 |->
                                                  IF i <= VecSize(t) THEN v[i] ELSE 0]] :
                         v \in [1..VecSize(t) -> VecValues]} :
                    t \in {"VEC2", "VEC3", "VEC4", "COLOR"}}

NotPr ==
    <<ngVars, oscVars, svVars, erVars, osVars, pgVars, smVars, esVars, piVars, ciVars, lpVars,
      mfVars, srVars, idVars, etVars>>

PrToString ==
    /\ pr.pc = "holds"
    /\ pr' = [pr EXCEPT !.pc = "written", !.str = Parameter_toString(pr.param)]
    /\ UNCHANGED NotPr

PrFromString ==
    /\ pr.pc = "written"
    /\ pr' = [pr EXCEPT !.pc = "read", !.read = Parameter_fromString(@, pr.str)]
    /\ UNCHANGED NotPr

InitParameter ==
    /\ \E p \in ParameterValues :
           pr = [pc |-> "holds", param |-> p, str |-> <<>>, read |-> Parameter_new(p.type)]
    /\ NGIdle /\ OscIdle /\ SvIdle /\ ErIdle /\ OsIdle /\ PgIdle /\ SmIdle /\ EsIdle /\ PiIdle /\ CiIdle /\ IdIdle /\ EtIdle
    /\ LpIdle /\ MfIdle /\ SrIdle

NextParameter ==
    \/ PrToString
    \/ PrFromString

SpecParameter == InitParameter /\ [][NextParameter]_vars

\* float precision: a relative error of at most FLT_EPSILON = 2^-23
FltEpsilonInverse == 8388608

Abs(x) == IF x < 0 THEN 0 - x ELSE x

WithinFloatPrecision(a, b) == Abs(a - b) * FltEpsilonInverse <= Abs(b)

(***************************************************************************)
(* C29: a Parameter holding v, written with toString() and read back with *)
(* fromString(), holds v again; for the float-based types within float    *)
(* precision.                                                             *)
(***************************************************************************)
C29_RoundTrip ==
    pr.pc = "read" =>
        /\ pr.read.type = pr.param.type
        /\ pr.read.int_value = pr.param.int_value
        /\ pr.read.string_value_ = pr.param.string_value_
        /\ pr.read.bool_value = pr.param.bool_value
        /\ WithinFloatPrecision(pr.read.float_value, pr.param.float_value)
        /\ \A i \in 1..4 : WithinFloatPrecision(pr.read.vec_values[i], pr.param.vec_values[i])

\* the types that are not float-based do come back unchanged
C29_ExactTypesRoundTrip ==
    (pr.pc = "read" /\ pr.param.type \in {"INT", "STRING", "BOOL"}) => pr.read = pr.param

(***************************************************************************)
(* C30: whatever ended the run loop of a service (a quit message, the     *)
(* quit command, the Quit menu item, a window close), its shutdown        *)
(* sequence has run in full by the time the service is destroyed: the     *)
(* "shutting_down" status went to its peers, the OSC server was stopped   *)
(* and the clients were disconnected.  A service whose initialize()       *)
(* failed never entered the loop: its server is down and its log empty.   *)
(***************************************************************************)
C30_ShutdownRunsInFullAfterTheLoop ==
    \A s \in Services :
        (svPc[s] = "destroyed" /\ (svServerUp[s] \/ svLog[s] # <<>>)) =>
            {"status_peer", "osc_server", "clients"} \subseteq SeqRange(svLog[s])

\* what getExecutionOrder computes from the node list, the inputs and the
\* output node when nothing is cached
LpFreshOrder(p) == Pipeline_getExecutionOrder([p EXCEPT !.executionOrderDirty = TRUE])

(***************************************************************************)
(* C40: getExecutionOrder() of the legacy Pipeline always returns what a  *)
(* fresh computation from the current nodes, inputs and output node       *)
(* returns; a cached order is never returned after addNode, removeNode,   *)
(* connectNodes, disconnectNodes or setOutputNode changed any of them.    *)
(***************************************************************************)
C40_ExecutionOrderIsFresh ==
    /\ Pipeline_getExecutionOrder(lp).threw = LpFreshOrder(lp).threw
    /\ Pipeline_getExecutionOrder(lp).result = LpFreshOrder(lp).result

(***************************************************************************)
(* C35: in the engine's node graph, after any sequence of handled         *)
(* create-node, delete-node, connect and disconnect requests, both        *)
(* endpoint nodes of every stored connection exist in the graph.          *)
(***************************************************************************)
C35_ConnectionEndpointsExist ==
    \A id \in DOMAIN engineGraph.connections :
        /\ engineGraph.connections[id].source \in DOMAIN engineGraph.nodes
        /\ engineGraph.connections[id].target \in DOMAIN engineGraph.nodes

(***************************************************************************)
(* The node ids the Node Editor and the Code Interpreter put into their   *)
(* create requests (NodeEditor.h 649-661, CodeInterpreter.cpp 308-328).   *)
(* The editor's handleNodeCreated (NodeEditor.h 573-585) would raise its  *)
(* counter, but the engine's notification has one argument and the        *)
(* handler ignores it (C2), so only createNodeInEngine moves it.          *)
(***************************************************************************)
MaxEditorCreates == 1000

\* createNodeInEngine with engine_connected_: the id it sends, and the counter
NodeEditor_createNodeInEngine(next_node_id_) ==
    [node_id |-> next_node_id_, next_node_id_ |-> next_node_id_ + 1]

NotId ==
    <<ngVars, oscVars, svVars, erVars, osVars, pgVars, smVars, esVars, piVars, ciVars, lpVars,
      mfVars, srVars, prVars, etVars>>

IdEditorCreate ==
    LET r == NodeEditor_createNodeInEngine(idc.next_node_id_)
    IN /\ Cardinality(idc.editor) < MaxEditorCreates
       /\ idc' = [idc EXCEPT !.next_node_id_ = r.next_node_id_, !.editor = @ \cup {r.node_id}]
       /\ UNCHANGED NotId

IdInterpCreate ==
    LET r == CodeInterpreter_createNodeFunction(<<Str_N, Str_math>>, idc.next_id, TRUE, TRUE)
    IN /\ Cardinality(idc.interp) < MaxCiCreates
       /\ idc' = [idc EXCEPT !.next_id = r.next_id, !.interp = @ \cup {r.id}]
       /\ UNCHANGED NotId

InitNodeIds ==
    /\ IdIdle
    /\ NGIdle /\ OscIdle /\ SvIdle /\ ErIdle /\ OsIdle /\ PgIdle /\ SmIdle /\ EsIdle /\ PiIdle /\ CiIdle /\ EtIdle
    /\ LpIdle /\ MfIdle /\ SrIdle /\ PrIdle

NextNodeIds ==
    \/ IdEditorCreate
    \/ IdInterpCreate

SpecNodeIds == InitNodeIds /\ [][NextNodeIds]_vars

(***************************************************************************)
(* C34: the node ids the Node Editor chooses for its create requests and  *)
(* the node ids the Code Interpreter chooses never coincide.              *)
(***************************************************************************)
C34_IdSpacesDisjoint == idc.editor \cap idc.interp = {}

(***************************************************************************)
(* C36: the cache key of generateShaderFromGraph separates any two graphs *)
(* that generate different fragment source: a call served from the cache  *)
(* under the key of the call before it (which compiled or was served the  *)
(* same program) is for a graph that generates the same source, so that   *)
(* graphs differing only in their designated output node are never served *)
(* the same cached program.                                               *)
(***************************************************************************)
C36_CacheKeySeparatesSources ==
    (/\ smLast.op = "generateShaderFromGraph"
     /\ smLast.again
     /\ smLast.firstSuccess
     /\ smLast.sameHandle) => smLast.source = smLast.prevSource

(***************************************************************************)
(* C37: the generateShaderFromGraph that follows a checkForChanges which  *)
(* reported a change to a snippet the graph requires is not served from   *)
(* the shader cache.                                                      *)
(***************************************************************************)
C37_ChangedSnippetRecompiles ==
    (/\ smLast.op = "generateShaderFromGraph"
     /\ smLast.afterChange # {}) => smLast.hits = 0

(***************************************************************************)
(* Specification of the lifetime of the programs of a legacy              *)
(* ShaderManager: initialize on a manager that is not initialized, then   *)
(* generateShaderFromGraph, deleteShader and clearCaches in any order,    *)
(* and cleanup.                                                           *)
(***************************************************************************)
LtInitialize == ~sm.initialized /\ LsmInitialize

NextProgramLifetime ==
    \/ LtInitialize
    \/ LsmGenerateShaderFromGraph
    \/ LsmDeleteShader
    \/ LsmClearCaches
    \/ LsmCleanup

SpecProgramLifetime == InitLegacyShaderManager /\ [][NextProgramLifetime]_vars

(***************************************************************************)
(* C38: cleanup() hands every program that exists when it is called to    *)
(* glDeleteProgram exactly once.                                          *)
(***************************************************************************)
C38_CleanupDeletesEachProgramOnce ==
    smLast.op = "cleanup" =>
        \A program \in smLast.live : smLast.deleteCalls[program] = 1

(***************************************************************************)
(* Node previews of the legacy ShaderManager                              *)
(* (generateNodePreviewShader, generateNodePreviewFragmentShader).        *)
(***************************************************************************)
PvNodes == 3

PvConns == 2

PvPorts == {"output"}

RECURSIVE StrJoin(_)
StrJoin(chars) == IF chars = <<>> THEN "" ELSE Head(chars) \o StrJoin(Tail(chars))

\* PipelineGraph::getNode: the node, or the dummy node of id -1
PipelineGraph_getNode(g, nodeId) ==
    LET found == PipelineGraph_findNode(g, nodeId)
    IN IF found # <<>> THEN Head(found) ELSE [id |-> -1, module |-> "unknown"]

PipelineGraph_getDependenciesOf(g, nodeId) ==
    LET dependencyIds == PipelineGraph_collectDependencies(g, nodeId)
        Found(id) == PipelineGraph_findNode(g, id) # <<>>
        ids == SelectSeq(dependencyIds, Found)
    IN [i \in DOMAIN ids |-> Head(PipelineGraph_findNode(g, ids[i]))]

\* generateNodePreviewFragmentShader, the parts of the text that depend on
\* the graph handed in, the node id and the port
generateNodePreviewFragmentShader(g, files, nodeId, outputPort) ==
    LET dependencies == PipelineGraph_getDependenciesOf(g, nodeId)
        targetNode == PipelineGraph_getNode(g, nodeId)
    IN [threw |-> FALSE,
        modules |-> PipelineGraph_getRequiredLygiaModules(g) \cap DOMAIN files,
        functions |-> [i \in DOMAIN dependencies |->
                          [name |-> PipelineGraph_Node_getName(dependencies[i]),
                           module |-> dependencies[i].module]],
        FragColor |-> [name |-> PipelineGraph_Node_getName(targetNode),
                       text |-> "_" \o outputPort]]

\* generateNodePreviewShader, where program is what compiling and linking
\* the generated source gives
ShaderManager_generateNodePreviewShader(s, files, g, nodeId, outputPort, program) ==
    LET subGraph == PipelineGraph_extractSubgraphTo(g, nodeId)
        subKey == generateGraphCacheKey(subGraph)
        cacheKey == <<"preview_" \o StrJoin(to_string(nodeId)) \o "_" \o outputPort \o "_",
                      subKey[2], subKey[3]>>
        fragmentShader == generateNodePreviewFragmentShader(subGraph, files, nodeId, outputPort)
        loaded == [s EXCEPT !.moduleCache =
                      @ \cup (PipelineGraph_getRequiredLygiaModules(subGraph) \cap DOMAIN files)]
    IN IF cacheKey \in DOMAIN s.shaderCache
       THEN [sm |-> [s EXCEPT !.cacheHits = @ + 1], success |-> TRUE,
             program |-> s.shaderCache[cacheKey], hit |-> TRUE,
             subGraph |-> subGraph, source |-> fragmentShader]
       ELSE IF program = 0
       THEN [sm |-> [loaded EXCEPT !.compilationCount = @ + 1], success |-> FALSE,
             program |-> 0, hit |-> FALSE,
             subGraph |-> subGraph, source |-> fragmentShader]
       ELSE [sm |-> [loaded EXCEPT !.shaderCache = MapPut(@, cacheKey, program),
                                   !.programSources = @ \cup {program},
                                   !.compilationCount = @ + 1],
             success |-> TRUE, program |-> program, hit |-> FALSE,
             subGraph |-> subGraph, source |-> fragmentShader]

NotPv == <<ngVars, oscVars, svVars, erVars, osVars, esVars, piVars, ciVars, lpVars, mfVars, srVars, prVars, idVars, etVars>>

PvGenerateNodePreviewShader ==
    \E nodeId \in 1..pg.nextNodeId :
        \E outputPort \in PvPorts :
            \E program \in glNewPrograms(gl, 1..MaxPrograms) :
                LET r == ShaderManager_generateNodePreviewShader(
                             sm, fsFiles, pg, nodeId, outputPort, program)
                IN /\ r.sm.cacheHits <= MaxCount
                   /\ r.sm.compilationCount <= MaxCount
                   /\ program # 0 => ~r.hit
                   /\ sm' = r.sm
                   /\ gl' = IF r.success /\ ~r.hit THEN glLinkProgram(gl, program) ELSE gl
                   /\ pgResult' = [op |-> "generateNodePreviewShader", nodeId |-> nodeId,
                                   outputPort |-> outputPort, subGraph |-> r.subGraph,
                                   source |-> r.source, success |-> r.success]
                   /\ UNCHANGED <<pg, fsFiles, smLast, NotPv>>

InitNodePreview ==
    /\ \E n \in 1..PvNodes :
        \E used \in {K \in SUBSET (1..(2 * n)) : Cardinality(K) <= PvConns} :
            \E source \in [used -> 1..n] : pg = TopoGraph(n, source)
    /\ pgResult = [op |-> "none"]
    /\ NGIdle /\ OscIdle /\ SvIdle /\ ErIdle /\ OsIdle /\ SmIdle /\ EsIdle /\ PiIdle /\ CiIdle /\ LpIdle /\ MfIdle /\ SrIdle /\ PrIdle /\ IdIdle /\ EtIdle

NextNodePreview == PvGenerateNodePreviewShader

SpecNodePreview == InitNodePreview /\ [][NextNodePreview]_vars

(***************************************************************************)
(* C39: for a node n of the graph, the source generateNodePreviewShader   *)
(* generates emits the node functions of the nodes of the extracted       *)
(* subgraph (the copies of n's upstream set) and takes FragColor from the *)
(* copy of n, the subgraph's output node, on the requested port.          *)
(***************************************************************************)
C39_PreviewOfTheCopyOfN ==
    (/\ pgResult.op = "generateNodePreviewShader"
     /\ PipelineGraph_findNode(pg, pgResult.nodeId) # <<>>) =>
        LET sub == pgResult.subGraph
            source == pgResult.source
        IN /\ Len(source.functions) = Len(sub.nodes)
           /\ {source.functions[i].name : i \in DOMAIN source.functions}
                  = {PipelineGraph_Node_getName(sub.nodes[i]) : i \in DOMAIN sub.nodes}
           /\ source.FragColor.name
                  = PipelineGraph_Node_getName(PipelineGraph_getNode(sub, sub.outputNodeId))
           /\ source.FragColor.text = "_" \o pgResult.outputPort

(***************************************************************************)
(* The threads of the Graphics Engine process (GraphicsEngine.cpp,        *)
(* OSCServer.cpp, graphics_engine/main.cpp).  The main thread runs run(): *)
(* initialize, which starts the OSC server and then registers the         *)
(* handlers, and the main loop with renderFrame.  The OSC receive thread  *)
(* runs serverThread: it receives a message, looks its path up in         *)
(* handlers_ and calls the handler.  The signal handler calls shutdown()  *)
(* on the thread the signal is delivered to, which stands still until the *)
(* handler returns.  No lock guards handlers_, the node graph, the        *)
(* pipeline or the render context.  A use of a released object and a      *)
(* lookup overlapping a write are undefined: the thread crashes or goes   *)
(* on.                                                                    *)
(***************************************************************************)
MaxEtMsgs == 2

EtHandlerPaths ==
    <<"/engine/node/create", "/engine/node/delete", "/engine/node/update",
      "/engine/node/param/set", "/engine/connection/create",
      "/engine/connection/delete", "/engine/render", "/engine/quit", "/ping">>

EtGraphPaths ==
    {"/engine/node/create", "/engine/node/delete", "/engine/node/update",
     "/engine/node/param/set", "/engine/connection/create", "/engine/connection/delete"}

\* the messages sent to the engine
EtMessagePaths == {"/engine/node/create", "/engine/render", "/engine/quit"}

\* the positions of a thread inside renderFrame after its entry check
EtRenderBody == {"clear", "processNodes", "pipelineRender", "swapBuffers"}

NotEt == <<ngVars, oscVars, svVars, erVars, osVars, pgVars, smVars, esVars, piVars, ciVars, lpVars, mfVars, srVars, prVars, idVars>>

EtMainRuns == et.sigOn # "main" \/ et.sig = "returned"

EtOscRuns == et.sigOn # "osc" \/ et.sig = "returned"

\* what a step that uses the render context or the pipeline leads to: next if
\* the object is there, and a crash or next if it was released
EtUse(present, next) == IF present THEN {next} ELSE {"crashed", next}

\* a message is sent to the engine's port
EtSend ==
    /\ et.osc # "none"
    /\ et.sent < MaxEtMsgs
    /\ \E path \in EtMessagePaths :
           et' = [et EXCEPT !.inFlight = Append(@, path), !.sent = @ + 1]
    /\ UNCHANGED NotEt

\* initialize up to the start of the OSC server: render context, shader
\* manager and pipeline
EtInitialize ==
    /\ et.main = "run"
    /\ EtMainRuns
    /\ \E ok \in BOOLEAN :
           et' = IF ok
                 THEN [et EXCEPT !.render_context = TRUE, !.pipeline = TRUE,
                                 !.main = "startServer"]
                 ELSE [et EXCEPT !.render_context = TRUE, !.main = "returned"]
    /\ UNCHANGED NotEt

\* osc_server_->start()
EtStartServer ==
    /\ et.main = "startServer"
    /\ EtMainRuns
    /\ \E created \in BOOLEAN :
           et' = IF created
                 THEN [et EXCEPT !.serverRunning = TRUE, !.osc = "check",
                                 !.main = "setupOSCHandlers"]
                 ELSE [et EXCEPT !.main = "returned"]
    /\ UNCHANGED NotEt

\* setupOSCHandlers: the next addHandler starts to write handlers_
EtAddHandlerBegin ==
    /\ et.main = "setupOSCHandlers"
    /\ EtMainRuns
    /\ et' = [et EXCEPT !.main = "addHandler"]
    /\ UNCHANGED NotEt

\* the write of addHandler is done; after the last one initialize returns
\* and run sets running_
EtAddHandlerEnd ==
    /\ et.main = "addHandler"
    /\ EtMainRuns
    /\ et' = [et EXCEPT !.handlers = @ \cup {EtHandlerPaths[et.registered + 1]},
                        !.registered = @ + 1,
                        !.main = IF et.registered + 1 = Len(EtHandlerPaths)
                                 THEN "setRunning" ELSE "setupOSCHandlers"]
    /\ UNCHANGED NotEt

EtSetRunning ==
    /\ et.main = "setRunning"
    /\ EtMainRuns
    /\ et' = [et EXCEPT !.running = TRUE, !.main = "loopCheck"]
    /\ UNCHANGED NotEt

\* the condition of the main loop
EtLoopCheck ==
    /\ et.main = "loopCheck"
    /\ EtMainRuns
    /\ \E shouldClose \in BOOLEAN :
           et' = IF et.running /\ et.render_context /\ ~shouldClose
                 THEN [et EXCEPT !.main = "pollEvents"]
                 ELSE [et EXCEPT !.main = "returned",
                                 !.running = IF et.render_context /\ shouldClose
                                             THEN FALSE ELSE @]
    /\ UNCHANGED NotEt

\* render_context_->pollEvents(), then renderFrame() or the sleep
EtPollEvents ==
    /\ et.main = "pollEvents"
    /\ EtMainRuns
    /\ \E next \in EtUse(et.render_context, "renderFrame")
                       \cup EtUse(et.render_context, "loopCheck") :
           et' = [et EXCEPT !.main = next,
                            !.usedReleased = @ \/ ~et.render_context]
    /\ UNCHANGED NotEt

\* renderFrame on the main thread: the entry check
EtRenderFrame ==
    /\ et.main = "renderFrame"
    /\ EtMainRuns
    /\ et' = [et EXCEPT !.main = IF ~et.render_context \/ ~et.pipeline
                                 THEN "loopCheck" ELSE "clear"]
    /\ UNCHANGED NotEt

EtClear ==
    /\ et.main = "clear"
    /\ EtMainRuns
    /\ \E next \in EtUse(et.render_context, "processNodes") :
           et' = [et EXCEPT !.main = next,
                            !.usedReleased = @ \/ ~et.render_context]
    /\ UNCHANGED NotEt

\* node_graph_->getTopologicalOrder() and process() of every node
EtProcessNodes ==
    /\ et.main = "processNodes"
    /\ EtMainRuns
    /\ et' = [et EXCEPT !.main = "pipelineRender"]
    /\ UNCHANGED NotEt

EtPipelineRender ==
    /\ et.main = "pipelineRender"
    /\ EtMainRuns
    /\ \E next \in EtUse(et.pipeline, "swapBuffers") :
           et' = [et EXCEPT !.main = next, !.usedReleased = @ \/ ~et.pipeline]
    /\ UNCHANGED NotEt

EtSwapBuffers ==
    /\ et.main = "swapBuffers"
    /\ EtMainRuns
    /\ \E next \in EtUse(et.render_context, "loopCheck") :
           et' = [et EXCEPT !.main = next,
                            !.usedReleased = @ \/ ~et.render_context]
    /\ UNCHANGED NotEt

\* serverThread: while (running_)
EtThreadCheck ==
    /\ et.osc = "check"
    /\ EtOscRuns
    /\ et' = [et EXCEPT !.osc = IF et.serverRunning THEN "recv" ELSE "exited"]
    /\ UNCHANGED NotEt

\* lo_server_recv_noblock: a message arrives and genericHandler is entered,
\* or the 50 ms pass
EtThreadRecv ==
    /\ et.osc = "recv"
    /\ EtOscRuns
    /\ \/ /\ et.inFlight # <<>>
          /\ et' = [et EXCEPT !.inFlight = Tail(@), !.msg = Head(et.inFlight),
                              !.osc = "lookup"]
       \/ et' = [et EXCEPT !.osc = "check"]
    /\ UNCHANGED NotEt

\* genericHandler: handlers_.find(path); while addHandler writes the map
\* the lookup is a data race
EtLookup ==
    /\ et.osc = "lookup"
    /\ EtOscRuns
    /\ \E next \in IF et.main = "addHandler"
                   THEN {"crashed", "handler", "check"}
                   ELSE IF et.msg \in et.handlers THEN {"handler"} ELSE {"check"} :
           et' = [et EXCEPT !.osc = next]
    /\ UNCHANGED NotEt

\* the handlers that read or change the node graph
EtHandleGraph ==
    /\ et.osc = "handler"
    /\ EtOscRuns
    /\ et.msg \in EtGraphPaths
    /\ et' = [et EXCEPT !.osc = "check"]
    /\ UNCHANGED NotEt

EtHandleQuit ==
    /\ et.osc = "handler"
    /\ EtOscRuns
    /\ et.msg = "/engine/quit"
    /\ et' = [et EXCEPT !.running = FALSE, !.osc = "check"]
    /\ UNCHANGED NotEt

\* handleRenderFrame: renderFrame() on the receive thread, its entry check
EtHandleRenderFrame ==
    /\ et.osc = "handler"
    /\ EtOscRuns
    /\ et.msg = "/engine/render"
    /\ et' = [et EXCEPT !.osc = IF ~et.render_context \/ ~et.pipeline
                                THEN "check" ELSE "rendering"]
    /\ UNCHANGED NotEt

\* the body of renderFrame on the receive thread
EtOscRendered ==
    /\ et.osc = "rendering"
    /\ EtOscRuns
    /\ \E next \in EtUse(et.render_context /\ et.pipeline, "check") :
           et' = [et EXCEPT !.osc = next]
    /\ UNCHANGED NotEt

\* SIGINT or SIGTERM is delivered to one of the threads once run() is
\* under way
EtSignal ==
    /\ et.sig = "none"
    /\ et.main \notin {"run", "returned", "crashed"}
    /\ \E thread \in {"main"} \cup (IF et.osc \in {"none", "exited", "crashed"}
                                    THEN {} ELSE {"osc"}) :
           et' = [et EXCEPT !.sig = "shutdown", !.sigOn = thread]
    /\ UNCHANGED NotEt

\* shutdown(): the guard, running_ = false
EtShutdown ==
    /\ et.sig = "shutdown"
    /\ et' = IF ~et.running
             THEN [et EXCEPT !.sig = "returned"]
             ELSE [et EXCEPT !.running = FALSE, !.sig = "stop"]
    /\ UNCHANGED NotEt

\* osc_server_->stop(): running_ = false, then the join; a thread that
\* joins itself gets std::system_error, which ends the process
EtStopServer ==
    /\ et.sig = "stop"
    /\ et' = IF ~et.serverRunning
             THEN [et EXCEPT !.sig = "reset"]
             ELSE IF et.sigOn = "osc"
             THEN [et EXCEPT !.serverRunning = FALSE, !.sig = "crashed",
                             !.main = "crashed", !.osc = "crashed"]
             ELSE [et EXCEPT !.serverRunning = FALSE, !.sig = "join"]
    /\ UNCHANGED NotEt

EtJoin ==
    /\ et.sig = "join"
    /\ et.osc \in {"exited", "crashed"}
    /\ et' = [et EXCEPT !.osc = "none", !.sig = "reset"]
    /\ UNCHANGED NotEt

\* pipeline_.reset(); shader_manager_.reset(); render_context_.reset()
EtReset ==
    /\ et.sig = "reset"
    /\ et' = [et EXCEPT !.pipeline = FALSE, !.render_context = FALSE,
                        !.sig = "returned"]
    /\ UNCHANGED NotEt

InitEngineThreads ==
    /\ EtIdle
    /\ NGIdle /\ OscIdle /\ SvIdle /\ ErIdle /\ OsIdle /\ PgIdle /\ SmIdle /\ EsIdle
    /\ PiIdle /\ CiIdle /\ LpIdle /\ MfIdle /\ SrIdle /\ PrIdle /\ IdIdle

NextEngineThreads ==
    \/ EtSend
    \/ EtInitialize
    \/ EtStartServer
    \/ EtAddHandlerBegin
    \/ EtAddHandlerEnd
    \/ EtSetRunning
    \/ EtLoopCheck
    \/ EtPollEvents
    \/ EtRenderFrame
    \/ EtClear
    \/ EtProcessNodes
    \/ EtPipelineRender
    \/ EtSwapBuffers
    \/ EtThreadCheck
    \/ EtThreadRecv
    \/ EtLookup
    \/ EtHandleGraph
    \/ EtHandleQuit
    \/ EtHandleRenderFrame
    \/ EtOscRendered
    \/ EtSignal
    \/ EtShutdown
    \/ EtStopServer
    \/ EtJoin
    \/ EtReset

SpecEngineThreads == InitEngineThreads /\ [][NextEngineThreads]_vars

(***************************************************************************)
(* C31: the receive thread dispatches no message (looks no path up in     *)
(* handlers_, runs no handler) while the main thread is still registering *)
(* the handlers, so that no lookup overlaps a write of the handler table. *)
(***************************************************************************)
C31_NoDispatchDuringRegistration ==
    et.main \in {"setupOSCHandlers", "addHandler"} =>
        et.osc \notin {"lookup", "handler", "rendering"}

(***************************************************************************)
(* C32: no handler that reads or changes the node graph or renders runs   *)
(* on the receive thread while the main thread is inside renderFrame, and *)
(* renderFrame is never executed by the two threads at once.              *)
(***************************************************************************)
C32_RenderFrameRunsAlone ==
    et.main \in EtRenderBody =>
        /\ ~(et.osc = "handler" /\ et.msg \in EtGraphPaths \cup {"/engine/render"})
        /\ et.osc # "rendering"

(***************************************************************************)
(* C33: after shutdown() was invoked from the signal handler while the    *)
(* main loop runs, the main loop uses neither the render context nor the  *)
(* pipeline that shutdown() released.                                     *)
(***************************************************************************)
C33_NoUseAfterShutdown == ~et.usedReleased
====
